---- MODULE Spec2Model ----
(***************************************************************************)
(* HoopIQ: the snapshot endpoints of ScheduleController, the predictions   *)
(* page (PredictionsPage.tsx) and its scoring function calculatePrediction.*)
(*                                                                         *)
(* JavaScript numbers are IEEE 754 binary64 values.  A finite number is    *)
(* held here by its exact value, a sign and a magnitude written as an      *)
(* integer multiple of 2^-(FracLimbs*LimbBits) in limbs of LimbBits bits,  *)
(* least significant limb first.  Every arithmetic operation computes the  *)
(* exact result and rounds it to 53 significant bits, ties to even, as the *)
(* hardware does.  Magnitudes stay below 2^LimbBits and above 2^-90 in     *)
(* every computation modelled, so neither overflow nor underflow occurs.   *)
(***************************************************************************)
EXTENDS Integers, Sequences, FiniteSets, TLC

\* ------------------------------------------------------------------------
\* binary64 arithmetic
\* ------------------------------------------------------------------------

LimbBits == 24
FracLimbs == 6
MantissaBits == 53

Base == 2^LimbBits
NLimbs == FracLimbs + 1
Limbs == 1..NLimbs

SetMax(S) == CHOOSE x \in S : \A y \in S : y <= x

MagZero == [i \in Limbs |-> 0]

\* The magnitude of the natural number n < Base.
MagOfNat(n) == [i \in Limbs |-> IF i = NLimbs THEN n ELSE 0]

\* -1, 0, 1 as a < b, a = b, a > b.
MagCmp(a, b) ==
    LET D == {i \in Limbs : a[i] # b[i]}
    IN  IF D = {} THEN 0
        ELSE IF a[SetMax(D)] > b[SetMax(D)] THEN 1 ELSE -1

RECURSIVE AddLimbs(_, _, _, _)
AddLimbs(a, b, i, carry) ==
    IF i > NLimbs THEN <<>>
    ELSE LET s == a[i] + b[i] + carry
         IN  <<s % Base>> \o AddLimbs(a, b, i + 1, s \div Base)

MagAdd(a, b) == AddLimbs(a, b, 1, 0)

\* a - b for a >= b.
RECURSIVE SubLimbs(_, _, _, _)
SubLimbs(a, b, i, borrow) ==
    IF i > NLimbs THEN <<>>
    ELSE LET s == a[i] - b[i] - borrow
         IN  IF s < 0 THEN <<s + Base>> \o SubLimbs(a, b, i + 1, 1)
             ELSE <<s>> \o SubLimbs(a, b, i + 1, 0)

MagSub(a, b) == SubLimbs(a, b, 1, 0)

\* a * k for a small natural k (k <= 100).
RECURSIVE MulLimbs(_, _, _, _)
MulLimbs(a, k, i, carry) ==
    IF i > NLimbs THEN <<>>
    ELSE LET s == a[i] * k + carry
         IN  <<s % Base>> \o MulLimbs(a, k, i + 1, s \div Base)

MagMulSmall(a, k) == MulLimbs(a, k, 1, 0)

\* a / d for a small natural d (d <= 127): the quotient's limbs, most
\* significant first, followed by the remainder.
RECURSIVE DivLimbs(_, _, _, _)
DivLimbs(a, d, i, rem) ==
    IF i < 1 THEN <<rem>>
    ELSE LET s == rem * Base + a[i]
         IN  <<s \div d>> \o DivLimbs(a, d, i - 1, s % d)

MagDivSmall(a, d) ==
    LET r == DivLimbs(a, d, NLimbs, 0)
    IN  [quot |-> [i \in Limbs |-> r[NLimbs + 1 - i]], rem |-> r[NLimbs + 1]]

\* The number of bits of the natural n < Base (0 for 0).
BitLen(n) == IF n = 0 THEN 0 ELSE 1 + SetMax({k \in 0..(LimbBits - 1) : 2^k <= n})

\* The index of the highest set bit of a # MagZero, bit 0 the lowest.
MagMsb(a) ==
    LET t == SetMax({i \in Limbs : a[i] # 0})
    IN  (t - 1) * LimbBits + BitLen(a[t]) - 1

MagBit(a, k) == (a[(k \div LimbBits) + 1] \div 2^(k % LimbBits)) % 2

\* Whether the bits below bit k are all zero.
MagLowZero(a, k) ==
    /\ \A i \in Limbs : i <= k \div LimbBits => a[i] = 0
    /\ a[(k \div LimbBits) + 1] % 2^(k % LimbBits) = 0

MagClearLow(a, k) ==
    [i \in Limbs |->
        IF i <= k \div LimbBits THEN 0
        ELSE IF i = (k \div LimbBits) + 1 THEN a[i] - (a[i] % 2^(k % LimbBits))
        ELSE a[i]]

MagPow2(k) == [i \in Limbs |-> IF i = (k \div LimbBits) + 1 THEN 2^(k % LimbBits) ELSE 0]

\* Round the exact magnitude a (plus a nonzero part below its last bit when
\* sticky) to MantissaBits significant bits, round-half-to-even.
Round53(a, sticky) ==
    IF a = MagZero THEN MagZero
    ELSE LET q == MagMsb(a) - (MantissaBits - 1)
         IN  IF q <= 0 THEN a
             ELSE LET guard == MagBit(a, q - 1) = 1
                      low   == sticky \/ ~MagLowZero(a, q - 1)
                      odd   == MagBit(a, q) = 1
                      trunc == MagClearLow(a, q)
                  IN  IF guard /\ (low \/ odd) THEN MagAdd(trunc, MagPow2(q))
                      ELSE trunc

\* A JavaScript number: NaN, or a finite value of the given sign and magnitude.
NaN == [nan |-> TRUE, neg |-> FALSE, mag |-> MagZero]
Num(neg, mag) == [nan |-> FALSE, neg |-> neg /\ mag # MagZero, mag |-> mag]

\* The number written n / d in decimal text (d a power of ten, n < Base):
\* the nearest binary64 value.
NumOfRatio(n, d) ==
    LET q == MagDivSmall(MagOfNat(IF n < 0 THEN -n ELSE n), d)
    IN  Num(n < 0, Round53(q.quot, q.rem # 0))

NumOfInt(n) == NumOfRatio(n, 1)

NumNeg(x) == IF x.nan THEN NaN ELSE Num(~x.neg, x.mag)

\* x + y
NumAdd(x, y) ==
    IF x.nan \/ y.nan THEN NaN
    ELSE IF x.neg = y.neg THEN Num(x.neg, Round53(MagAdd(x.mag, y.mag), FALSE))
    ELSE IF MagCmp(x.mag, y.mag) >= 0
         THEN Num(x.neg, Round53(MagSub(x.mag, y.mag), FALSE))
         ELSE Num(y.neg, Round53(MagSub(y.mag, x.mag), FALSE))

\* x - y
NumSub(x, y) == NumAdd(x, NumNeg(y))

\* x / d for the literal divisor d
NumDivSmall(x, d) ==
    IF x.nan THEN NaN
    ELSE LET q == MagDivSmall(x.mag, d)
         IN  Num(x.neg, Round53(q.quot, q.rem # 0))

\* x * k for the literal factor k
NumMulSmall(x, k) ==
    IF x.nan THEN NaN ELSE Num(x.neg, Round53(MagMulSmall(x.mag, k), FALSE))

\* x < y (false when either is NaN)
NumLt(x, y) ==
    /\ ~x.nan /\ ~y.nan
    /\ IF x.neg # y.neg THEN x.neg
       ELSE IF x.neg THEN MagCmp(x.mag, y.mag) > 0
       ELSE MagCmp(x.mag, y.mag) < 0

\* Math.min, Math.max: NaN when either argument is NaN.
MathMin(x, y) == IF x.nan \/ y.nan THEN NaN ELSE IF NumLt(y, x) THEN y ELSE x
MathMax(x, y) == IF x.nan \/ y.nan THEN NaN ELSE IF NumLt(x, y) THEN y ELSE x

\* An integer-valued JavaScript number, or NaN.
IntNaN == [nan |-> TRUE, val |-> 0]
IntNum(n) == [nan |-> FALSE, val |-> n]

\* Math.round: the nearest integer, a tie going up (towards +Infinity).
MathRound(x) ==
    IF x.nan THEN IntNaN
    ELSE LET whole == x.mag[NLimbs]
             frac  == [i \in Limbs |-> IF i = NLimbs THEN 0 ELSE x.mag[i]]
             half  == frac[FracLimbs] >= Base \div 2
             tie   == frac = MagPow2(FracLimbs * LimbBits - 1)
         IN  IF ~x.neg THEN IntNum(IF half THEN whole + 1 ELSE whole)
             ELSE IntNum(IF half /\ ~tie THEN -(whole + 1) ELSE -whole)

\* ------------------------------------------------------------------------
\* Text
\* ------------------------------------------------------------------------
\* A string is the sequence of its characters.

Digits == <<"0", "1", "2", "3", "4", "5", "6", "7", "8", "9">>
IsDigit(c) == \E i \in 1..10 : Digits[i] = c
DigitVal(c) == (CHOOSE i \in 1..10 : Digits[i] = c) - 1

RECURSIVE AllDigits(_)
AllDigits(s) == s = <<>> \/ (IsDigit(Head(s)) /\ AllDigits(Tail(s)))

\* The natural number a run of digits writes.
RECURSIVE DigitsVal(_)
DigitsVal(s) ==
    IF s = <<>> THEN 0 ELSE DigitsVal(SubSeq(s, 1, Len(s) - 1)) * 10 + DigitVal(s[Len(s)])

Contains(s, c) == \E i \in 1..Len(s) : s[i] = c
IndexOf(s, c) == CHOOSE i \in 1..Len(s) : s[i] = c /\ \A j \in 1..(i - 1) : s[j] # c

\* String.trim (Java and JavaScript): leading and trailing blanks removed.
RECURSIVE TrimLeft(_)
TrimLeft(s) == IF s # <<>> /\ Head(s) = " " THEN TrimLeft(Tail(s)) ELSE s
RECURSIVE TrimRight(_)
TrimRight(s) ==
    IF s # <<>> /\ s[Len(s)] = " " THEN TrimRight(SubSeq(s, 1, Len(s) - 1)) ELSE s
Trim(s) == TrimRight(TrimLeft(s))

\* The text after an optional sign, and whether the sign is a minus.
Unsigned(s) == IF s # <<>> /\ (Head(s) = "-" \/ Head(s) = "+") THEN Tail(s) ELSE s
IsMinus(s) == s # <<>> /\ Head(s) = "-"

\* A decimal literal without exponent: digits, or digits with one point and
\* at least one digit on one side of it.
IsDecimalBody(u) ==
    IF Contains(u, ".")
    THEN LET i == IndexOf(u, ".")
             a == SubSeq(u, 1, i - 1)
             b == SubSeq(u, i + 1, Len(u))
         IN  AllDigits(a) /\ AllDigits(b) /\ Len(a) + Len(b) > 0
    ELSE u # <<>> /\ AllDigits(u)

\* The binary64 value nearest to the decimal literal u (unsigned).
DecimalBodyValue(neg, u) ==
    IF Contains(u, ".")
    THEN LET i == IndexOf(u, ".")
             a == SubSeq(u, 1, i - 1)
             b == SubSeq(u, i + 1, Len(u))
             n == DigitsVal(a \o b)
         IN  NumOfRatio(IF neg THEN -n ELSE n, 10^Len(b))
    ELSE NumOfInt(IF neg THEN -DigitsVal(u) ELSE DigitsVal(u))

\* ------------------------------------------------------------------------
\* JavaScript values of the fields of a record received as JSON
\* ------------------------------------------------------------------------

Undefined == [t |-> "undefined", num |-> NaN, str |-> <<>>]
JsNum(n) == [t |-> "number", num |-> n, str |-> <<>>]
JsStr(s) == [t |-> "string", num |-> NaN, str |-> s]

\* ToNumber of a string: blank text is 0, a decimal literal is its value,
\* anything else is NaN.
StringToNumber(s) ==
    LET u == Trim(s)
    IN  IF u = <<>> THEN NumOfInt(0)
        ELSE IF IsDecimalBody(Unsigned(u)) THEN DecimalBodyValue(IsMinus(u), Unsigned(u))
        ELSE NaN

\* ToNumber, as applied to both operands of the binary minus.
ToNumber(v) ==
    IF v.t = "number" THEN v.num
    ELSE IF v.t = "string" THEN StringToNumber(v.str)
    ELSE NaN

\* a - b
JsMinus(a, b) == NumSub(ToNumber(a), ToNumber(b))

\* obj.key: the property's value, undefined when the object has none.
Get(obj, key) == IF key \in DOMAIN obj THEN obj[key] ELSE Undefined

\* Arithmetic on integer-valued numbers.
IntMinus(a, b) == IF a.nan \/ b.nan THEN IntNaN ELSE IntNum(a.val - b.val)
IntMax(a, b) == IF a.nan \/ b.nan THEN IntNaN ELSE IntNum(IF a.val < b.val THEN b.val ELSE a.val)
IntGt(a, b) == ~a.nan /\ ~b.nan /\ a.val > b.val

\* Field names.
K_abbr == <<"a", "b", "b", "r">>
K_win_pct == <<"w", "i", "n", "_", "p", "c", "t">>
K_ppg == <<"p", "p", "g">>
K_opp_ppg == <<"o", "p", "p", "_", "p", "p", "g">>

\* ------------------------------------------------------------------------
\* calculatePrediction
\* ------------------------------------------------------------------------

\* Variant: a missing entry read as an empty record.
lookupStats_emptyRecord(teamStatsMap, abbr) ==
    IF abbr \in DOMAIN teamStatsMap THEN <<teamStatsMap[abbr]>> ELSE << <<>> >>

\* teamStatsMap[abbr]: <<>> for undefined, <<stats>> for an entry.
lookupStats(teamStatsMap, abbr) ==
    IF abbr \in DOMAIN teamStatsMap THEN <<teamStatsMap[abbr]>> ELSE <<>>

neutralPrediction ==
    [homeWinProb |-> IntNum(50), awayWinProb |-> IntNum(50), confidence |-> IntNum(50)]

\* Variant: no home-court advantage.
homeAdvantage_none == NumOfInt(0)

homeAdvantage == NumOfRatio(3, 100)

\* Variant: the difference taken the other way round.
winPctDiff_swapped(homeStats, awayStats) ==
    JsMinus(Get(awayStats, K_win_pct), Get(homeStats, K_win_pct))

winPctDiff(homeStats, awayStats) ==
    JsMinus(Get(homeStats, K_win_pct), Get(awayStats, K_win_pct))

\* Variant: points allowed minus points scored.
netRating_reversed(stats) == JsMinus(Get(stats, K_opp_ppg), Get(stats, K_ppg))

netRating(stats) == JsMinus(Get(stats, K_ppg), Get(stats, K_opp_ppg))

\* Variant: the net-rating difference scaled by 10 instead of 20.
netRatingDiff_div10(homeStats, awayStats) ==
    NumDivSmall(NumSub(netRating(homeStats), netRating(awayStats)), 10)

netRatingDiff(homeStats, awayStats) ==
    NumDivSmall(NumSub(netRating(homeStats), netRating(awayStats)), 20)

rawHomeProb(homeStats, awayStats) ==
    NumAdd(NumAdd(NumAdd(NumOfRatio(5, 10),
                         NumDivSmall(winPctDiff(homeStats, awayStats), 2)),
                  homeAdvantage),
           netRatingDiff(homeStats, awayStats))

\* Variant: the lower bound only.
clampProb_noUpper(p) == MathMax(NumOfRatio(20, 100), p)

clampProb(p) == MathMax(NumOfRatio(20, 100), MathMin(NumOfRatio(80, 100), p))

toPercent(p) == MathRound(NumMulSmall(p, 100))

\* The three results, from the rounded home percentage.
probabilities(homeWinProb) ==
    LET awayWinProb == IntMinus(IntNum(100), homeWinProb)
    IN  [homeWinProb |-> homeWinProb,
         awayWinProb |-> awayWinProb,
         confidence  |-> IntMax(homeWinProb, awayWinProb)]

calculatePrediction(homeAbbr, awayAbbr, teamStatsMap) ==
    LET home == lookupStats(teamStatsMap, homeAbbr)
        away == lookupStats(teamStatsMap, awayAbbr)
    IN  IF home = <<>> \/ away = <<>> THEN neutralPrediction
        ELSE probabilities(toPercent(clampProb(rawHomeProb(home[1], away[1]))))

\* ------------------------------------------------------------------------
\* The prediction card of one scheduled game (the body of games.map)
\* ------------------------------------------------------------------------

\* Variant: the home team unless the away probability is strictly larger.
predictedWinner_tieHome(homeWinProb, awayWinProb, game) ==
    IF IntGt(awayWinProb, homeWinProb) THEN game.away_team_abbr ELSE game.home_team_abbr

predictedWinner(homeWinProb, awayWinProb, game) ==
    IF IntGt(homeWinProb, awayWinProb) THEN game.home_team_abbr ELSE game.away_team_abbr

\* The card built from the prediction r.  The display-only fields (names,
\* cities, logos, formatted date) are left out.
predictionCard(game, idx, r) ==
    [id              |-> idx,
     gameId          |-> game.game_id,
     homeAbbr        |-> game.home_team_abbr,
     awayAbbr        |-> game.away_team_abbr,
     homeWinProb     |-> r.homeWinProb,
     awayWinProb     |-> r.awayWinProb,
     predictedWinner |-> predictedWinner(r.homeWinProb, r.awayWinProb, game),
     confidence      |-> r.confidence]

gamePrediction(game, idx, teamStatsMap) ==
    predictionCard(game, idx,
        calculatePrediction(game.home_team_abbr, game.away_team_abbr, teamStatsMap))

\* ------------------------------------------------------------------------
\* Inputs of the scoring function
\* ------------------------------------------------------------------------

BOS == <<"B", "O", "S">>
LAL == <<"L", "A", "L">>
ZZZ == <<"Z", "Z", "Z">>
NA_TEXT == <<"N", "/", "A">>

\* The teams that may have a team-stats record, and the abbreviations a
\* scheduled game may carry (ZZZ never has a record).
StatAbbrs == {BOS, LAL}
GameAbbrs == {BOS, LAL, ZZZ}

MaxMidWinPcts == 2
MaxPpgSteps == 2

\* win_pct in hundredths; ppg and opp_ppg in tenths.
WinPcts == {0, 100} \cup {41 + 6 * k : k \in 1..MaxMidWinPcts}
PpgTenths == {1100 + k : k \in 0..MaxPpgSteps}
OppTenths == {1100}

\* A field of a record as the page receives it: a decimal number n/scale,
\* a text that is no number, a blank text, or no field at all.
DecField(n) == [kind |-> "dec", n |-> n]
TextField == [kind |-> "text", n |-> 0]
BlankField == [kind |-> "blank", n |-> 0]
MissingField == [kind |-> "missing", n |-> 0]

FieldValue(f, scale) ==
    IF f.kind = "dec" THEN JsNum(NumOfRatio(f.n, scale))
    ELSE IF f.kind = "text" THEN JsStr(NA_TEXT)
    ELSE IF f.kind = "blank" THEN JsStr(<<>>)
    ELSE Undefined

AbsentTeam == [present |-> FALSE, win |-> MissingField, ppg |-> MissingField, opp |-> MissingField]

TeamInputs ==
    {AbsentTeam} \cup
    [present : {TRUE},
     win : {DecField(w) : w \in WinPcts} \cup {TextField, BlankField, MissingField},
     ppg : {DecField(n) : n \in PpgTenths} \cup {TextField},
     opp : {DecField(n) : n \in OppTenths}]

\* An object with the given fields, those that are undefined left out.
ObjectOf(fields) == [k \in {k \in DOMAIN fields : fields[k].t # "undefined"} |-> fields[k]]

TeamStatsOf(abbr, in) ==
    ObjectOf((K_abbr :> JsStr(abbr)) @@ (K_win_pct :> FieldValue(in.win, 100))
             @@ (K_ppg :> FieldValue(in.ppg, 10)) @@ (K_opp_ppg :> FieldValue(in.opp, 10)))

\* The team-stats map of the teams given.
StatsMapOf(teams) ==
    [a \in {a \in DOMAIN teams : teams[a].present} |-> TeamStatsOf(a, teams[a])]

\* ------------------------------------------------------------------------
\* ScheduleController: the snapshot files and their parsing
\* ------------------------------------------------------------------------

Min2(a, b) == IF a < b THEN a ELSE b
Prefix(s, n) == SubSeq(s, 1, Min2(n, Len(s)))

\* A value of a Map<String, Object> built by the controller or by Jackson.
JLong(n) == [t |-> "Long", num |-> NumOfInt(n), str |-> <<>>]
JDouble(v) == [t |-> "Double", num |-> v, str |-> <<>>]
JString(s) == [t |-> "String", num |-> NaN, str |-> s]

\* Long.parseLong accepts an optional sign and at least one digit (the
\* modelled cells have at most seven).
ParsesAsLong(s) == Unsigned(s) # <<>> /\ AllDigits(Unsigned(s))
\* Double.parseDouble accepts, among the texts modelled, the decimal literals.
ParsesAsDouble(s) == IsDecimalBody(Unsigned(Trim(s)))

\* Variant: every cell that parses as a decimal becomes one, point or not.
parseCell_decimalFirst(value) ==
    IF ParsesAsDouble(value)
    THEN JDouble(DecimalBodyValue(IsMinus(Trim(value)), Unsigned(Trim(value))))
    ELSE JString(value)

\* The typing of one cell: a decimal when the text holds a point and parses,
\* an integer when it holds none and parses, otherwise the text itself.
parseCell(value) ==
    IF Contains(value, ".")
    THEN IF ParsesAsDouble(value)
         THEN JDouble(DecimalBodyValue(IsMinus(Trim(value)), Unsigned(Trim(value))))
         ELSE JString(value)
    ELSE IF ParsesAsLong(value)
         THEN JLong(IF IsMinus(value) THEN -DigitsVal(Unsigned(value)) ELSE DigitsVal(Unsigned(value)))
         ELSE JString(value)

\* A line is held as the sequence of its comma-separated fields.
\* String.split(","): trailing empty fields are dropped; a line without a
\* comma is returned whole, even when empty.
RECURSIVE DropTrailingEmpty(_)
DropTrailingEmpty(cells) ==
    IF cells # <<>> /\ cells[Len(cells)] = <<>>
    THEN DropTrailingEmpty(SubSeq(cells, 1, Len(cells) - 1))
    ELSE cells
JavaSplit(cells) == IF Len(cells) = 1 THEN cells ELSE DropTrailingEmpty(cells)

\* One data row: header i paired with value i while both exist; a header
\* that occurs twice keeps its last value (HashMap.put).
csvRow(headers, values) ==
    LET n == Min2(Len(headers), Len(values))
        keys == {Trim(headers[i]) : i \in 1..n}
    IN  [k \in keys |->
            parseCell(Trim(values[SetMax({i \in 1..n : Trim(headers[i]) = k})]))]

parseCsvToList(lines) ==
    IF lines = <<>> THEN <<>>
    ELSE LET headers == JavaSplit(lines[1])
         IN  [j \in 1..(Len(lines) - 1) |-> csvRow(headers, JavaSplit(lines[j + 1]))]

\* A file: absent, text no reader can parse ("garbage"), a JSON list of
\* records ("json") or the lines of a CSV text ("csv").
AbsentFile == [kind |-> "absent", content |-> <<>>]
GarbageFile == [kind |-> "garbage", content |-> <<>>]
JsonFile(records) == [kind |-> "json", content |-> records]
CsvFile(lines) == [kind |-> "csv", content |-> lines]

\* A response: the HTTP status and the body; branch records which path of
\* the handler produced it and is not part of what the caller receives.
Ok(body, branch) == [status |-> 200, body |-> body, branch |-> branch]
ServerError == [status |-> 500, body |-> <<>>, branch |-> "exception"]

\* objectMapper.readValue of a JSON file, behind the existence check:
\* FileNotFoundException and JsonProcessingException are IOExceptions and
\* are caught.
readJsonList(file) ==
    IF file.kind = "absent" THEN Ok(<<>>, "vanished")
    ELSE IF file.kind = "json" THEN Ok(file.content, "parsed")
    ELSE Ok(<<>>, "unparsable")

getUpcomingGames(file) == readJsonList(file)

getTeamStats(file) ==
    IF file.kind = "absent" THEN Ok(<<>>, "vanished")
    ELSE IF file.kind = "csv" THEN Ok(parseCsvToList(file.content), "parsed")
    ELSE Ok(<<>>, "unparsable")

getPlayerStats(file) == readJsonList(file)

Lowercase == <<"a", "b", "c", "d", "e", "f", "g", "h", "i", "j", "k", "l", "m",
               "n", "o", "p", "q", "r", "s", "t", "u", "v", "w", "x", "y", "z">>
Uppercase == <<"A", "B", "C", "D", "E", "F", "G", "H", "I", "J", "K", "L", "M",
               "N", "O", "P", "Q", "R", "S", "T", "U", "V", "W", "X", "Y", "Z">>
ToUpperChar(c) ==
    IF \E i \in 1..26 : Lowercase[i] = c
    THEN Uppercase[CHOOSE i \in 1..26 : Lowercase[i] = c]
    ELSE c
ToUpperCase(s) == [i \in 1..Len(s) |-> ToUpperChar(s[i])]
EqualsIgnoreCase(a, b) == Len(a) = Len(b) /\ ToUpperCase(a) = ToUpperCase(b)

K_team_abbr == <<"t", "e", "a", "m", "_", "a", "b", "b", "r">>
K_player_id == <<"p", "l", "a", "y", "e", "r", "_", "i", "d">>

\* (String) player.get("team_abbr"): null when the key is missing, a
\* ClassCastException when the value is no String.
CastFails(player) == K_team_abbr \in DOMAIN player /\ player[K_team_abbr].t # "String"
MatchesTeam(teamAbbr, player) ==
    /\ K_team_abbr \in DOMAIN player
    /\ EqualsIgnoreCase(teamAbbr, player[K_team_abbr].str)

getPlayersByTeam(teamAbbr, file) ==
    IF file.kind # "json" THEN readJsonList(file)
    ELSE IF \E i \in 1..Len(file.content) : CastFails(file.content[i]) THEN ServerError
    ELSE Ok(SelectSeq(file.content, LAMBDA p : MatchesTeam(teamAbbr, p)), "parsed")

\* The file each endpoint reads, and what it answers once the file exists.
FileOf(ep) ==
    IF ep = "upcoming" THEN "schedule"
    ELSE IF ep = "team-stats" THEN "teamStats" ELSE "players"

handlerRead(ep, arg, file) ==
    IF ep = "upcoming" THEN getUpcomingGames(file)
    ELSE IF ep = "team-stats" THEN getTeamStats(file)
    ELSE IF ep = "players" THEN getPlayerStats(file)
    ELSE getPlayersByTeam(arg, file)

\* ------------------------------------------------------------------------
\* PredictionsPage: from the responses to the state
\* ------------------------------------------------------------------------

\* JSON.parse of a serialized Map value.
FromJson(v) == IF v.t = "String" THEN JsStr(v.str) ELSE JsNum(v.num)
JsObjectOf(map) == [k \in DOMAIN map |-> FromJson(map[k])]
JsListOf(body) == [i \in 1..Len(body) |-> JsObjectOf(body[i])]

RECURSIVE NatText(_)
NatText(n) == IF n < 10 THEN <<Digits[n + 1]>> ELSE NatText(n \div 10) \o <<Digits[(n % 10) + 1]>>

\* The property key a value is converted to (integer-valued numbers only: no
\* modelled abbreviation cell parses as a fraction).
PropertyKey(v) ==
    IF v.t = "string" THEN v.str
    ELSE IF v.t = "undefined" THEN <<"u", "n", "d", "e", "f", "i", "n", "e", "d">>
    ELSE IF v.num.nan THEN <<"N", "a", "N">>
    ELSE IF v.num.neg THEN <<"-">> \o NatText(v.num.mag[NLimbs])
    ELSE NatText(v.num.mag[NLimbs])

\* Variant: the first record of a key is kept.
buildStatsMap_firstWins(stats) ==
    LET keyOf(i) == PropertyKey(Get(stats[i], K_abbr))
    IN  [k \in {keyOf(i) : i \in 1..Len(stats)} |->
            stats[CHOOSE i \in 1..Len(stats) :
                      keyOf(i) = k /\ \A j \in 1..(i - 1) : keyOf(j) # k]]

\* stats.forEach(s => { statsMap[s.abbr] = s }): the last record of a key wins.
buildStatsMap(stats) ==
    LET keyOf(i) == PropertyKey(Get(stats[i], K_abbr))
    IN  [k \in {keyOf(i) : i \in 1..Len(stats)} |->
            stats[SetMax({i \in 1..Len(stats) : keyOf(i) = k})]]

\* Variant: games whose teams have no stats entry are left out.
predictionsOf_skipMissing(games, teamStatsMap) ==
    LET known == SelectSeq(games, LAMBDA g : /\ g.home_team_abbr \in DOMAIN teamStatsMap
                                             /\ g.away_team_abbr \in DOMAIN teamStatsMap)
    IN  [i \in 1..Len(known) |-> gamePrediction(known[i], i, teamStatsMap)]

\* games.map((game, idx) => ...)
predictionsOf(games, teamStatsMap) ==
    [i \in 1..Len(games) |-> gamePrediction(games[i], i, teamStatsMap)]

\* ------------------------------------------------------------------------
\* The snapshot files the collector may leave
\* ------------------------------------------------------------------------

MaxGames == 2
MaxCsvRows == 2
MaxPlayers == 2
MaxFileChanges == 1

Game(id, h, a) == [game_id |-> id, home_team_abbr |-> h, away_team_abbr |-> a]
Fixtures == <<Game(1, BOS, LAL), Game(2, LAL, ZZZ), Game(3, ZZZ, BOS), Game(4, LAL, BOS)>>

CsvHeader == <<K_abbr, K_win_pct, K_ppg, K_opp_ppg>>
CsvRows ==
    << <<BOS, <<"0", ".", "4", "7">>, <<"1", "1", "0", ".", "1">>, <<"1", "1", "0", ".", "0">> >>,
       <<LAL, <<"0", ".", "3", "3">>, <<"1", "1", "0", ".", "0">>, <<"1", "1", "0", ".", "0">> >>,
       <<BOS, NA_TEXT, <<"1", "1", "0", ".", "0">> >>,
       <<LAL, <<"1">>, <<" ", "1", "1", "2">>, <<>> >> >>

Player(id, fields) == (K_player_id :> JLong(id)) @@ fields
PlayerList ==
    << Player(1, K_team_abbr :> JString(BOS)),
       Player(2, K_team_abbr :> JLong(7)),
       Player(3, K_team_abbr :> JString(<<"b", "o", "s">>)),
       Player(4, K_ppg :> JLong(20)) >>

ScheduleFiles == {AbsentFile, GarbageFile} \cup {JsonFile(Prefix(Fixtures, n)) : n \in 0..MaxGames}
TeamStatsFiles ==
    {AbsentFile, CsvFile(<<>>)} \cup {CsvFile(<<CsvHeader>> \o Prefix(CsvRows, n)) : n \in 0..MaxCsvRows}
PlayersFiles == {AbsentFile, GarbageFile} \cup {JsonFile(Prefix(PlayerList, n)) : n \in 0..MaxPlayers}

FilesFor(f) ==
    IF f = "schedule" THEN ScheduleFiles
    ELSE IF f = "teamStats" THEN TeamStatsFiles ELSE PlayersFiles


VARIABLES
    pTeams,        \* PredictSpec: the team-stats inputs, per team
    pOut,          \* PredictSpec: <<>>, or the one prediction card computed
    fs,            \* the snapshot files: schedule, teamStats, players
    fileChanges,   \* how many times the collector has replaced or removed a file
    reqs,          \* the HTTP requests, per slot
    pagePc,        \* PredictionsPage: where its last load or refresh stands
    predictions,   \* PredictionsPage state
    loading,       \* PredictionsPage state
    error,         \* PredictionsPage state: "null" or the message
    teamStats,     \* PredictionsPage state
    refreshStats,  \* the teamStats that the pending handleRefresh closed over
    qPlayers,      \* QuerySpec: the player snapshot, in the order the file lists it
    qOut,          \* QuerySpec: the last query, with its inputs and its result
    db,            \* ServiceSpec: the rows of the players and predictions tables
    svc,           \* ServiceSpec: the requests being handled, per slot
    detail,        \* DetailSpec: the state of TeamDetailPage
    fetches        \* DetailSpec: the roster fetches started, oldest first

predictVars == <<pTeams, pOut>>
pageVars == <<pagePc, predictions, loading, error, teamStats, refreshStats>>
queryVars == <<qPlayers, qOut>>
serviceVars == <<db, svc>>
detailVars == <<detail, fetches>>
vars == <<pTeams, pOut, fs, fileChanges, reqs, pagePc, predictions, loading, error,
          teamStats, refreshStats, qPlayers, qOut, db, svc, detail, fetches>>

\* ------------------------------------------------------------------------
\* Requests
\* ------------------------------------------------------------------------

PageSlots == {"load.games", "load.stats", "refresh.games"}
Slots == PageSlots \cup {"client"}

NoResponse == [status |-> 0, body |-> <<>>, branch |-> "none"]
IdleReq == [stage |-> "idle", ep |-> "none", arg |-> <<>>, resp |-> NoResponse]
SentReq(ep, arg) == [stage |-> "sent", ep |-> ep, arg |-> arg, resp |-> NoResponse]

\* A request the api wrapper resolves: answered, and response.ok.
Fulfilled(r) == r.stage = "done" /\ r.resp.status = 200
\* A request the api wrapper rejects: fetch failed, or !response.ok.
Rejected(r) == r.stage = "failed" \/ (r.stage = "done" /\ r.resp.status # 200)

\* err.message of the rejection.
RejectionMessage(r) ==
    IF r.stage = "failed" THEN "Failed to fetch"
    ELSE IF r.ep = "upcoming" THEN "Failed to fetch upcoming games"
    ELSE "Failed to fetch team stats"

\* ------------------------------------------------------------------------
\* Initial states
\* ------------------------------------------------------------------------

PredictIdle == pTeams = [a \in StatAbbrs |-> AbsentTeam] /\ pOut = <<>>

PageInit ==
    /\ pagePc = "init"
    /\ predictions = <<>>
    /\ loading = TRUE
    /\ error = "null"
    /\ teamStats = <<>>
    /\ refreshStats = <<>>

RequestsInit == reqs = [s \in Slots |-> IdleReq]

NoQuery == [op |-> "none", args |-> <<>>, result |-> <<>>]
QueryIdle == qPlayers = <<>> /\ qOut = NoQuery
ServiceIdle == db = <<>> /\ svc = <<>>
DetailIdle == detail = <<>> /\ fetches = <<>>

\* ------------------------------------------------------------------------
\* The collector and the network
\* ------------------------------------------------------------------------

\* The collector writes a new snapshot of file f, or removes it.
ChangeFile(f, c) ==
    /\ fileChanges < MaxFileChanges
    /\ c \in FilesFor(f)
    /\ c # fs[f]
    /\ fs' = [fs EXCEPT ![f] = c]
    /\ fileChanges' = fileChanges + 1
    /\ UNCHANGED <<reqs, predictVars, queryVars, serviceVars, detailVars, pageVars>>

\* fetch rejects: the request never gets its answer.
NetworkFail(s) ==
    /\ reqs[s].stage \in {"sent", "checked"}
    /\ reqs' = [reqs EXCEPT ![s].stage = "failed"]
    /\ UNCHANGED <<fs, fileChanges, predictVars, queryVars, serviceVars, detailVars, pageVars>>

\* ------------------------------------------------------------------------
\* ScheduleController: a handler runs in two steps, file.exists() and the
\* read, and the collector may act in between.
\* ------------------------------------------------------------------------

ExistsCheck(s) ==
    /\ reqs[s].stage = "sent"
    /\ reqs' = [reqs EXCEPT ![s] =
                   IF fs[FileOf(reqs[s].ep)].kind = "absent"
                   THEN [@ EXCEPT !.stage = "done", !.resp = Ok(<<>>, "absent")]
                   ELSE [@ EXCEPT !.stage = "checked"]]
    /\ UNCHANGED <<fs, fileChanges, predictVars, queryVars, serviceVars, detailVars, pageVars>>

\* A handler that shares its scanner with the request answered before it, so
\* that a second read of a CSV file starts one data line late (not the code's).
ReadAndRespond_sharedScanner(s) ==
    /\ reqs[s].stage = "checked"
    /\ LET file == fs[FileOf(reqs[s].ep)]
           again == \E o \in Slots \ {s} : reqs[o].stage = "done" /\ reqs[o].ep = reqs[s].ep
           late == IF again /\ file.kind = "csv" /\ Len(file.content) >= 2
                   THEN [file EXCEPT !.content = <<file.content[1]>> \o Tail(Tail(file.content))]
                   ELSE file
       IN  reqs' = [reqs EXCEPT ![s] =
                       [@ EXCEPT !.stage = "done",
                                 !.resp = handlerRead(reqs[s].ep, reqs[s].arg, late)]]
    /\ UNCHANGED <<fs, fileChanges, predictVars, queryVars, serviceVars, detailVars, pageVars>>

ReadAndRespond(s) ==
    /\ reqs[s].stage = "checked"
    /\ reqs' = [reqs EXCEPT ![s] =
                   [@ EXCEPT !.stage = "done",
                             !.resp = handlerRead(reqs[s].ep, reqs[s].arg, fs[FileOf(reqs[s].ep)])]]
    /\ UNCHANGED <<fs, fileChanges, predictVars, queryVars, serviceVars, detailVars, pageVars>>

\* A caller of the API other than the predictions page, one request at a time.
ClientRequest(ep, arg) ==
    /\ reqs["client"].stage \in {"idle", "done"}
    /\ reqs' = [reqs EXCEPT !["client"] = SentReq(ep, arg)]
    /\ UNCHANGED <<fs, fileChanges, predictVars, queryVars, serviceVars, detailVars, pageVars>>

\* ------------------------------------------------------------------------
\* PredictionsPage
\* ------------------------------------------------------------------------

\* useEffect on mount: fetchScheduleAndPredict up to its await.
Mount ==
    /\ pagePc = "init"
    /\ pagePc' = "loading"
    /\ loading' = TRUE
    /\ error' = "null"
    /\ reqs' = [reqs EXCEPT !["load.games"] = SentReq("upcoming", <<>>),
                            !["load.stats"] = SentReq("team-stats", <<>>)]
    /\ UNCHANGED <<fs, fileChanges, predictVars, queryVars, serviceVars, detailVars, predictions, teamStats, refreshStats>>

\* fetchScheduleAndPredict after Promise.all resolved: the rest of the try
\* block and the finally block.
LoadResolve ==
    /\ pagePc = "loading"
    /\ Fulfilled(reqs["load.games"]) /\ Fulfilled(reqs["load.stats"])
    /\ LET statsMap == buildStatsMap(JsListOf(reqs["load.stats"].resp.body))
       IN  /\ teamStats' = statsMap
           /\ predictions' = predictionsOf(reqs["load.games"].resp.body, statsMap)
    /\ loading' = FALSE
    /\ pagePc' = "loaded"
    /\ UNCHANGED <<fs, fileChanges, reqs, predictVars, queryVars, serviceVars, detailVars, error, refreshStats>>

\* fetchScheduleAndPredict after Promise.all rejected (on its first
\* rejection): the catch block and the finally block.  The answer to the
\* other request, if still to come, is never looked at.
LoadReject(s) ==
    /\ pagePc = "loading"
    /\ Rejected(reqs[s])
    /\ error' = RejectionMessage(reqs[s])
    /\ predictions' = <<>>
    /\ loading' = FALSE
    /\ pagePc' = "loadFailed"
    /\ UNCHANGED <<fs, fileChanges, reqs, predictVars, queryVars, serviceVars, detailVars, teamStats, refreshStats>>

\* A handleRefresh that reads the map of the first render (not the code's).
RefreshClick_firstRenderMap ==
    /\ pagePc \in {"loaded", "loadFailed", "refreshed", "refreshFailed"}
    /\ ~loading
    /\ loading' = TRUE
    /\ refreshStats' = [k \in {} |-> Undefined]
    /\ reqs' = [reqs EXCEPT !["refresh.games"] = SentReq("upcoming", <<>>)]
    /\ pagePc' = "refreshing"
    /\ UNCHANGED <<fs, fileChanges, predictVars, queryVars, serviceVars, detailVars, predictions, error, teamStats>>

\* handleRefresh up to its request; the button is rendered only while
\* loading is false.
RefreshClick ==
    /\ pagePc \in {"loaded", "loadFailed", "refreshed", "refreshFailed"}
    /\ ~loading
    /\ loading' = TRUE
    /\ refreshStats' = teamStats
    /\ reqs' = [reqs EXCEPT !["refresh.games"] = SentReq("upcoming", <<>>)]
    /\ pagePc' = "refreshing"
    /\ UNCHANGED <<fs, fileChanges, predictVars, queryVars, serviceVars, detailVars, predictions, error, teamStats>>

\* handleRefresh: the then callback.
RefreshResolve ==
    /\ pagePc = "refreshing"
    /\ Fulfilled(reqs["refresh.games"])
    /\ predictions' = predictionsOf(reqs["refresh.games"].resp.body, refreshStats)
    /\ loading' = FALSE
    /\ pagePc' = "refreshed"
    /\ UNCHANGED <<fs, fileChanges, reqs, predictVars, queryVars, serviceVars, detailVars, error, teamStats, refreshStats>>

\* A catch callback that also drops what the page shows (not the code's).
RefreshReject_clears ==
    /\ pagePc = "refreshing"
    /\ Rejected(reqs["refresh.games"])
    /\ predictions' = <<>>
    /\ loading' = FALSE
    /\ pagePc' = "refreshFailed"
    /\ UNCHANGED <<fs, fileChanges, reqs, predictVars, queryVars, serviceVars, detailVars, error, teamStats, refreshStats>>

\* handleRefresh: the catch callback.
RefreshReject ==
    /\ pagePc = "refreshing"
    /\ Rejected(reqs["refresh.games"])
    /\ loading' = FALSE
    /\ pagePc' = "refreshFailed"
    /\ UNCHANGED <<fs, fileChanges, reqs, predictVars, queryVars, serviceVars, detailVars, predictions, error, teamStats, refreshStats>>

\* ------------------------------------------------------------------------
\* Spec: the predictions page with the two endpoints it calls
\* ------------------------------------------------------------------------

Init ==
    /\ PredictIdle
    /\ fs \in [schedule : ScheduleFiles, teamStats : TeamStatsFiles, players : {AbsentFile}]
    /\ fileChanges = 0
    /\ RequestsInit
    /\ PageInit
    /\ QueryIdle
    /\ ServiceIdle
    /\ DetailIdle

Next ==
    \/ \E f \in {"schedule", "teamStats"} : \E c \in FilesFor(f) : ChangeFile(f, c)
    \/ \E s \in PageSlots : NetworkFail(s)
    \/ \E s \in PageSlots : ExistsCheck(s)
    \/ \E s \in PageSlots : ReadAndRespond(s)
    \/ Mount
    \/ LoadResolve
    \/ \E s \in {"load.games", "load.stats"} : LoadReject(s)
    \/ RefreshClick
    \/ RefreshResolve
    \/ RefreshReject

Spec == Init /\ [][Next]_vars

\* ------------------------------------------------------------------------
\* BackendSpec: the four snapshot endpoints, called one request at a time
\* ------------------------------------------------------------------------

Endpoints == {"upcoming", "team-stats", "players", "players-by-team"}

BackendInit ==
    /\ PredictIdle
    /\ fs \in [schedule : ScheduleFiles, teamStats : TeamStatsFiles, players : PlayersFiles]
    /\ fileChanges = 0
    /\ RequestsInit
    /\ PageInit
    /\ QueryIdle
    /\ ServiceIdle
    /\ DetailIdle

BackendNext ==
    \/ \E f \in {"schedule", "teamStats", "players"} : \E c \in FilesFor(f) : ChangeFile(f, c)
    \/ \E ep \in Endpoints \ {"players-by-team"} : ClientRequest(ep, <<>>)
    \/ \E abbr \in StatAbbrs : ClientRequest("players-by-team", abbr)
    \/ ExistsCheck("client")
    \/ ReadAndRespond("client")

BackendSpec == BackendInit /\ [][BackendNext]_vars

\* ------------------------------------------------------------------------
\* PredictSpec: the scoring function on its own
\* ------------------------------------------------------------------------

PredictInit ==
    /\ pTeams \in [StatAbbrs -> TeamInputs]
    /\ pOut = <<>>
    /\ fs = [schedule |-> AbsentFile, teamStats |-> AbsentFile, players |-> AbsentFile]
    /\ fileChanges = 0
    /\ RequestsInit
    /\ PageInit
    /\ QueryIdle
    /\ ServiceIdle
    /\ DetailIdle

\* One game scored against the map, as games.map does for each game.
PredictGame(h, a) ==
    /\ pOut = <<>>
    /\ pOut' = <<gamePrediction(Game(1, h, a), 1, StatsMapOf(pTeams))>>
    /\ UNCHANGED <<pTeams, fs, fileChanges, reqs, pageVars, queryVars, serviceVars, detailVars>>

PredictNext == \E h \in GameAbbrs, a \in GameAbbrs : PredictGame(h, a)

PredictSpec == PredictInit /\ [][PredictNext]_vars

\* ------------------------------------------------------------------------
\* CallsSpec: calculatePrediction called several times on one map
\* ------------------------------------------------------------------------

MaxCalls == 3

\* No record, two numeric records and one with a text win_pct.
CallInputs ==
    {t \in TeamInputs :
        \/ ~t.present
        \/ /\ t.win \in {DecField(0), DecField(100), TextField}
           /\ t.ppg = DecField(1100)}

CallsInit ==
    /\ pTeams \in [StatAbbrs -> CallInputs]
    /\ pOut = <<>>
    /\ fs = [schedule |-> AbsentFile, teamStats |-> AbsentFile, players |-> AbsentFile]
    /\ fileChanges = 0
    /\ RequestsInit
    /\ PageInit
    /\ QueryIdle
    /\ ServiceIdle
    /\ DetailIdle

\* A call that writes the default win_pct 0.5 into a home record that has
\* none it can use (not the code's).
PredictAgain_fillsDefault(h, a) ==
    /\ Len(pOut) < MaxCalls
    /\ pOut' = Append(pOut, gamePrediction(Game(1, h, a), Len(pOut) + 1, StatsMapOf(pTeams)))
    /\ pTeams' = [t \in StatAbbrs |->
                     IF t = h /\ pTeams[t].present /\ pTeams[t].win.kind # "dec"
                     THEN [pTeams[t] EXCEPT !.win = DecField(50)]
                     ELSE pTeams[t]]
    /\ UNCHANGED <<fs, fileChanges, reqs, pageVars, queryVars, serviceVars, detailVars>>

\* One more call of calculatePrediction, for one more card: the function
\* reads teamStatsMap[homeAbbr] and teamStatsMap[awayAbbr] and assigns to
\* locals only.
PredictAgain(h, a) ==
    /\ Len(pOut) < MaxCalls
    /\ pOut' = Append(pOut, gamePrediction(Game(1, h, a), Len(pOut) + 1, StatsMapOf(pTeams)))
    /\ UNCHANGED <<pTeams, fs, fileChanges, reqs, pageVars, queryVars, serviceVars, detailVars>>

CallsNext == \E h \in GameAbbrs, a \in GameAbbrs : PredictAgain(h, a)

CallsSpec == CallsInit /\ [][CallsNext]_vars

\* ------------------------------------------------------------------------
\* Properties of the scoring function (checked under PredictSpec)
\* ------------------------------------------------------------------------

Called == pOut # <<>>
Card == pOut[1]

HasStats(a) == a \in StatAbbrs /\ pTeams[a].present
NumericTeam(a) ==
    /\ HasStats(a)
    /\ pTeams[a].win.kind = "dec" /\ pTeams[a].ppg.kind = "dec" /\ pTeams[a].opp.kind = "dec"
BothNumeric == Called /\ NumericTeam(Card.homeAbbr) /\ NumericTeam(Card.awayAbbr)

\* Net rating in tenths of a point, for a numeric team.
NetTenths(a) == pTeams[a].ppg.n - pTeams[a].opp.n

\* Twice the exact value of 100 * (0.5 + winPctDiff/2 + 0.03 + netRatingDiff/20)
\* for win_pct in hundredths and ppg, opp_ppg in tenths: an integer.
ExactTwicePercent ==
    106 + (pTeams[Card.homeAbbr].win.n - pTeams[Card.awayAbbr].win.n)
        + (NetTenths(Card.homeAbbr) - NetTenths(Card.awayAbbr))

\* ... clamped to [0.20, 0.80].
ClampedTwicePercent ==
    IF ExactTwicePercent < 40 THEN 40
    ELSE IF ExactTwicePercent > 160 THEN 160 ELSE ExactTwicePercent

\* round_half_up of the clamped exact percentage.
ReferencePercent == (ClampedTwicePercent + 1) \div 2

IsInt(v, n) == ~v.nan /\ v.val = n
InRange(v, lo, hi) == ~v.nan /\ lo <= v.val /\ v.val <= hi
\* JavaScript ==, which no NaN satisfies.
JsEq(a, b) == ~a.nan /\ ~b.nan /\ a.val = b.val

\* C1: with both teams present and all six stats numeric, homeWinProb and
\* awayWinProb are integers that sum to 100 and each lies in [20, 80].
C1_SumAndRange ==
    BothNumeric =>
        /\ InRange(Card.homeWinProb, 20, 80)
        /\ InRange(Card.awayWinProb, 20, 80)
        /\ Card.homeWinProb.val + Card.awayWinProb.val = 100

C1_Witness == BothNumeric /\ IsInt(Card.homeWinProb, 80) /\ ExactTwicePercent > 160

\* C2 as stated: for fixed-point inputs, homeWinProb is round_half_up of the
\* exact clamped percentage, and awayWinProb is 100 - homeWinProb.
C2_Original ==
    BothNumeric =>
        /\ IsInt(Card.homeWinProb, ReferencePercent)
        /\ IsInt(Card.awayWinProb, 100 - ReferencePercent)

\* C2 amended: homeWinProb equals the exact clamped percentage when that is
\* an integer; when it lies exactly half-way between two integers,
\* homeWinProb is one of the two (binary64 rounding decides which);
\* awayWinProb is 100 - homeWinProb in both cases.
C2_Amended ==
    BothNumeric =>
        /\ ~Card.homeWinProb.nan
        /\ IF ClampedTwicePercent % 2 = 0
           THEN Card.homeWinProb.val = ClampedTwicePercent \div 2
           ELSE Card.homeWinProb.val \in {(ClampedTwicePercent - 1) \div 2,
                                          (ClampedTwicePercent + 1) \div 2}
        /\ IsInt(Card.awayWinProb, 100 - Card.homeWinProb.val)

C2_Witness ==
    /\ BothNumeric
    /\ ClampedTwicePercent % 2 = 1
    /\ IsInt(Card.homeWinProb, (ClampedTwicePercent - 1) \div 2)

C4_Claim ==
    Called =>
        /\ JsEq(Card.confidence, IntMax(Card.homeWinProb, Card.awayWinProb))
        /\ InRange(Card.confidence, 50, 80)

\* C5 as stated, for predictions with integer probabilities: a tie
\* (homeWinProb == awayWinProb) names the home team as predictedWinner;
\* otherwise the team with the strictly larger probability.
C5_Original ==
    (Called /\ ~Card.homeWinProb.nan) =>
        IF JsEq(Card.homeWinProb, Card.awayWinProb)
        THEN Card.predictedWinner = Card.homeAbbr
        ELSE \/ IntGt(Card.homeWinProb, Card.awayWinProb) /\ Card.predictedWinner = Card.homeAbbr
             \/ IntGt(Card.awayWinProb, Card.homeWinProb) /\ Card.predictedWinner = Card.awayAbbr

\* C5 amended: predictedWinner is the home team exactly when homeWinProb is
\* strictly larger than awayWinProb; in every other case, a 50/50 tie and the
\* neutral fallback included, it is the away team.
C5_Amended ==
    Called =>
        /\ IntGt(Card.homeWinProb, Card.awayWinProb) => Card.predictedWinner = Card.homeAbbr
        /\ ~IntGt(Card.homeWinProb, Card.awayWinProb) => Card.predictedWinner = Card.awayAbbr
        /\ JsEq(Card.homeWinProb, Card.awayWinProb) => IsInt(Card.homeWinProb, 50)

C5_Witness ==
    /\ BothNumeric /\ Card.homeAbbr # Card.awayAbbr
    /\ IsInt(Card.homeWinProb, 50) /\ IsInt(Card.awayWinProb, 50)
    /\ Card.predictedWinner = Card.awayAbbr

SameStats(a, b) ==
    /\ pTeams[a].win = pTeams[b].win
    /\ pTeams[a].ppg = pTeams[b].ppg
    /\ pTeams[a].opp = pTeams[b].opp

\* C6 as stated, for numeric stats: two teams present with identical
\* win_pct, ppg and opp_ppg give homeWinProb == 50 and predictedWinner == home.
C6_Original ==
    (BothNumeric /\ SameStats(Card.homeAbbr, Card.awayAbbr)) =>
        /\ IsInt(Card.homeWinProb, 50)
        /\ Card.predictedWinner = Card.homeAbbr

\* C6 amended: two teams present with identical numeric win_pct, ppg and
\* opp_ppg give homeWinProb == 53 (50 plus the 3-point home advantage),
\* awayWinProb == 47 and predictedWinner == home.
C6_Amended ==
    (BothNumeric /\ SameStats(Card.homeAbbr, Card.awayAbbr)) =>
        /\ IsInt(Card.homeWinProb, 53)
        /\ IsInt(Card.awayWinProb, 47)
        /\ Card.predictedWinner = Card.homeAbbr

C6_Witness ==
    /\ BothNumeric /\ Card.homeAbbr # Card.awayAbbr
    /\ SameStats(Card.homeAbbr, Card.awayAbbr)
    /\ IsInt(Card.homeWinProb, 53)

\* C7: home win_pct 1.0, away win_pct 0.0 and a home net rating not below the
\* away net rating give homeWinProb == 80 exactly, awayWinProb == 20 and
\* confidence == 80.
C7_ClampBoundary ==
    (BothNumeric /\ pTeams[Card.homeAbbr].win.n = 100 /\ pTeams[Card.awayAbbr].win.n = 0
                 /\ NetTenths(Card.homeAbbr) >= NetTenths(Card.awayAbbr)) =>
        /\ IsInt(Card.homeWinProb, 80)
        /\ IsInt(Card.awayWinProb, 20)
        /\ IsInt(Card.confidence, 80)

C7_Witness ==
    /\ BothNumeric /\ pTeams[Card.homeAbbr].win.n = 100 /\ pTeams[Card.awayAbbr].win.n = 0
    /\ NetTenths(Card.homeAbbr) > NetTenths(Card.awayAbbr)
    /\ IsInt(Card.homeWinProb, 80)

IsMalformed(f) == f.kind # "dec"
HasMalformedField(a) ==
    IsMalformed(pTeams[a].win) \/ IsMalformed(pTeams[a].ppg) \/ IsMalformed(pTeams[a].opp)

\* C10 as stated: a record that is present but whose win_pct, ppg or opp_ppg
\* is missing or kept as non-numeric text still gives a well-formed
\* prediction: integers summing to 100, homeWinProb in [20, 80], confidence
\* the larger of the two.
C10_Claim ==
    (Called /\ HasStats(Card.homeAbbr) /\ HasStats(Card.awayAbbr)
            /\ (HasMalformedField(Card.homeAbbr) \/ HasMalformedField(Card.awayAbbr))) =>
        /\ InRange(Card.homeWinProb, 20, 80)
        /\ ~Card.awayWinProb.nan
        /\ Card.homeWinProb.val + Card.awayWinProb.val = 100
        /\ JsEq(Card.confidence, IntMax(Card.homeWinProb, Card.awayWinProb))

\* ------------------------------------------------------------------------
\* Properties of the snapshot endpoints (checked under BackendSpec)
\* ------------------------------------------------------------------------

Answered(s) == reqs[s].stage = "done"
EmptyListBranches == {"absent", "vanished", "unparsable"}

\* C8 as stated: every answer of the four snapshot endpoints is a successful
\* response, whatever the file holds (player records with a non-text
\* team_abbr included), and it carries an empty list when the file is
\* absent, vanished between the existence check and the read, or cannot be
\* parsed as a whole.
C8_Claim ==
    \A s \in Slots :
        Answered(s) =>
            /\ reqs[s].resp.status = 200
            /\ reqs[s].resp.branch \in EmptyListBranches => reqs[s].resp.body = <<>>

\* ------------------------------------------------------------------------
\* Properties of the predictions page (checked under Spec)
\* ------------------------------------------------------------------------

StatsRead == reqs["load.stats"]
GamesRead == reqs["load.games"]
StatsSourceAbsent == Answered("load.stats") /\ StatsRead.resp.branch \in {"absent", "vanished"}

IsNeutralCard(card) ==
    /\ IsInt(card.homeWinProb, 50)
    /\ IsInt(card.awayWinProb, 50)
    /\ IsInt(card.confidence, 50)

MaxLoadRows == 3

\* Data lines: two BOS records, a lower-case one, one with an empty
\* abbreviation, one with no cell at all, one with cells of mixed kinds,
\* and a plain LAL record.
LoadRows ==
    { <<BOS, <<"0", ".", "4", "7">>, <<"1", "1", "0", ".", "1">>, <<"1", "1", "0", ".", "0">>>>,
      <<BOS, <<"0", ".", "5", "3">>, <<"1", "1", "0", ".", "0">>, <<"1", "1", "0", ".", "0">>>>,
      <<<<"b", "o", "s">>, <<"1", ".", "0", "0">>, <<"1", "1", "0", ".", "0">>, <<"1", "1", "0", ".", "0">>>>,
      <<<<>>, <<"0", ".", "4", "7">>, <<"1", "1", "0", ".", "0">>, <<"1", "1", "0", ".", "0">>>>,
      <<<<>>, <<>>, <<>>, <<>>>>,
      <<LAL, <<"N", "/", "A">>, <<"1", "1", "0">>, <<"1", ".", "5", "x">>>>,
      <<LAL, <<"0", ".", "0", "0">>, <<"1", "1", "0", ".", "0">>, <<"1", "1", "0", ".", "0">>>> }

RECURSIVE SeqsUpTo(_, _)
SeqsUpTo(S, n) ==
    IF n = 0 THEN {<<>>}
    ELSE LET shorter == SeqsUpTo(S, n - 1)
         IN  shorter \cup {Append(q, x) : q \in {r \in shorter : Len(r) = n - 1}, x \in S}

LoadFiles == {CsvFile(<<CsvHeader>> \o rows) : rows \in SeqsUpTo(LoadRows, MaxLoadRows)}
LoadSchedule == JsonFile(<<Game(1, BOS, LAL), Game(4, LAL, BOS)>>)

LoadInit ==
    /\ PredictIdle
    /\ fs \in [schedule : {LoadSchedule}, teamStats : LoadFiles, players : {AbsentFile}]
    /\ fileChanges = 0
    /\ RequestsInit
    /\ PageInit
    /\ QueryIdle
    /\ ServiceIdle
    /\ DetailIdle

LoadNext ==
    \/ Mount
    \/ \E s \in {"load.games", "load.stats"} : ExistsCheck(s)
    \/ \E s \in {"load.games", "load.stats"} : ReadAndRespond(s)
    \/ LoadResolve

LoadSpec == LoadInit /\ [][LoadNext]_vars

\* ReloadSpec: the load, and then the same team-stats snapshot requested and
\* parsed once more.
ReadAgain ==
    /\ pagePc = "loaded"
    /\ ClientRequest("team-stats", <<>>)

ReloadNext ==
    \/ LoadNext
    \/ ReadAgain
    \/ ExistsCheck("client")
    \/ ReadAndRespond("client")

ReloadSpec == LoadInit /\ [][ReloadNext]_vars

\* ------------------------------------------------------------------------
\* Text: lower case and substring
\* ------------------------------------------------------------------------

ToLowerChar(c) ==
    IF \E i \in 1..26 : Uppercase[i] = c
    THEN Lowercase[CHOOSE i \in 1..26 : Uppercase[i] = c]
    ELSE c
ToLowerCase(s) == [i \in 1..Len(s) |-> ToLowerChar(s[i])]

\* String.prototype.includes; also LIKE '%t%' for a t without wildcards.
Includes(s, t) == \E i \in 0..(Len(s) - Len(t)) : SubSeq(s, i + 1, i + Len(t)) = t

\* ------------------------------------------------------------------------
\* The teams and players tables of the backend (DataLoader)
\* ------------------------------------------------------------------------

MIA == <<"M", "I", "A">>
DEN == <<"D", "E", "N">>
East == <<"E", "a", "s", "t">>
West == <<"W", "e", "s", "t">>

Team(id, name, city, abbreviation, conference) ==
    [id |-> id, name |-> name, city |-> city, abbreviation |-> abbreviation,
     conference |-> conference]
Teams ==
    << Team(1, <<"L", "a", "k", "e", "r", "s">>, <<"L", "o", "s", " ", "A", "n", "g", "e", "l", "e", "s">>, LAL, West),
       Team(2, <<"C", "e", "l", "t", "i", "c", "s">>, <<"B", "o", "s", "t", "o", "n">>, BOS, East),
       Team(5, <<"H", "e", "a", "t">>, <<"M", "i", "a", "m", "i">>, MIA, East),
       Team(6, <<"N", "u", "g", "g", "e", "t", "s">>, <<"D", "e", "n", "v", "e", "r">>, DEN, West) >>

DbPlayer(id, firstName, lastName, teamId, position) ==
    [id |-> id, firstName |-> firstName, lastName |-> lastName, teamId |-> teamId,
     position |-> position]
DbPlayers ==
    << DbPlayer(1, <<"L", "e", "B", "r", "o", "n">>, <<"J", "a", "m", "e", "s">>, 1, <<"S", "F">>),
       DbPlayer(6, <<"N", "i", "k", "o", "l", "a">>, <<"J", "o", "k", "i", "c">>, 6, <<"C">>),
       DbPlayer(8, <<"J", "a", "y", "s", "o", "n">>, <<"T", "a", "t", "u", "m">>, 2, <<"S", "F">>),
       DbPlayer(12, <<"J", "a", "y", "l", "e", "n">>, <<"B", "r", "o", "w", "n">>, 2, <<"S", "G">>) >>

\* A request parameter that was not sent; for teamId, which is a Long, 0
\* stands for it (ids start at 1).
Null == <<"null">>
NullId == 0
Supplied(param) == param # Null /\ param # <<>>

\* ------------------------------------------------------------------------
\* TeamRepository, TeamService, TeamController
\* ------------------------------------------------------------------------

findByConference(conference) == SelectSeq(Teams, LAMBDA t : t.conference = conference)

findByNameContainingIgnoreCaseOrCityContainingIgnoreCase(name, city) ==
    SelectSeq(Teams, LAMBDA t : \/ Includes(ToLowerCase(t.name), ToLowerCase(name))
                                \/ Includes(ToLowerCase(t.city), ToLowerCase(city)))

searchTeams(query) == findByNameContainingIgnoreCaseOrCityContainingIgnoreCase(query, query)

getAllTeams(conference, search) ==
    IF Supplied(conference) THEN findByConference(conference)
    ELSE IF Supplied(search) THEN searchTeams(search)
    ELSE Teams

\* ------------------------------------------------------------------------
\* PlayerRepository, PlayerService, PlayerController
\* ------------------------------------------------------------------------

findByTeamId(teamId) == SelectSeq(DbPlayers, LAMBDA p : p.teamId = teamId)
findByPosition(position) == SelectSeq(DbPlayers, LAMBDA p : p.position = position)
searchByName(name) ==
    SelectSeq(DbPlayers, LAMBDA p : \/ Includes(ToLowerCase(p.firstName), ToLowerCase(name))
                                    \/ Includes(ToLowerCase(p.lastName), ToLowerCase(name)))

getAllPlayers(position, search, teamId) ==
    IF teamId # NullId THEN findByTeamId(teamId)
    ELSE IF Supplied(position) THEN findByPosition(position)
    ELSE IF Supplied(search) THEN searchByName(search)
    ELSE DbPlayers

\* ------------------------------------------------------------------------
\* TeamsPage
\* ------------------------------------------------------------------------

All == <<"A", "l", "l">>

filteredTeams(teams, search, conference) ==
    SelectSeq(teams, LAMBDA team :
        /\ \/ Includes(ToLowerCase(team.name), ToLowerCase(search))
           \/ Includes(ToLowerCase(team.city), ToLowerCase(search))
           \/ Includes(ToLowerCase(team.abbreviation), ToLowerCase(search))
        /\ (conference = All \/ team.conference = conference))

\* ------------------------------------------------------------------------
\* PlayersPage and TeamDetailPage over the player snapshot
\* ------------------------------------------------------------------------

K_name == <<"n", "a", "m", "e">>
K_position == <<"p", "o", "s", "i", "t", "i", "o", "n">>

SnapshotPlayer(id, name, team, position, ppg) ==
    Player(id, (K_name :> JString(name)) @@ (K_team_abbr :> JString(team))
               @@ (K_position :> JString(position)) @@ (K_ppg :> JLong(ppg)))
SnapshotPool ==
    << SnapshotPlayer(1, <<"T", "a", "t", "u", "m">>, BOS, <<"F", "-", "G">>, 27),
       SnapshotPlayer(2, <<"B", "r", "o", "w", "n">>, BOS, <<"G", "-", "F">>, 27),
       SnapshotPlayer(3, <<"W", "h", "i", "t", "e">>, BOS, <<"G">>, 15),
       SnapshotPlayer(4, <<"J", "o", "k", "i", "c">>, DEN, <<"C">>, 30) >>

\* The comparator (a, b) => b.ppg - a.ppg.
comparePpg(a, b) == JsMinus(Get(b, K_ppg), Get(a, K_ppg))
Positive(x) == ~x.nan /\ ~x.neg /\ x.mag # MagZero

\* Array.prototype.sort is stable: x, which came after everything in sorted,
\* goes behind every element the comparator does not put after it.
insertSorted(sorted, x) ==
    LET k == Cardinality({i \in 1..Len(sorted) : ~Positive(comparePpg(sorted[i], x))})
    IN  SubSeq(sorted, 1, k) \o <<x>> \o SubSeq(sorted, k + 1, Len(sorted))

RECURSIVE sortByPpg(_)
sortByPpg(data) ==
    IF data = <<>> THEN <<>>
    ELSE insertSorted(sortByPpg(SubSeq(data, 1, Len(data) - 1)), data[Len(data)])

\* fetchPlayers of either page, from the response to its request: the api
\* wrapper throws unless response.ok, and the catch block sets [].
fetchPlayers(resp) == IF resp.status = 200 THEN sortByPpg(JsListOf(resp.body)) ELSE <<>>

\* Every modelled player has a name and a position, so toLowerCase and
\* includes are always called on strings.
filteredPlayers(players, search, position, team) ==
    SelectSeq(players, LAMBDA player :
        /\ Includes(ToLowerCase(Get(player, K_name).str), ToLowerCase(search))
        /\ (position = All \/ Includes(Get(player, K_position).str, position))
        /\ (team = All \/ Get(player, K_team_abbr) = JsStr(team)))

\* ------------------------------------------------------------------------
\* QuerySpec: one query of the teams, the players or the roster
\* ------------------------------------------------------------------------

MaxSnapshot == 3

Snapshots ==
    {[i \in 1..Len(q) |-> SnapshotPool[q[i]]] :
        q \in {r \in SeqsUpTo(1..Len(SnapshotPool), MaxSnapshot) :
                  \A i, j \in 1..Len(r) : i # j => r[i] # r[j]}}

ConferenceParams == {Null, <<>>, East, West}
TeamSearchParams == {Null, <<"l", "a", "k">>, <<"L", "A", "L">>, <<"b", "o", "s">>}
ConferenceOptions == {All, East, West}
TeamSearches == {<<>>, <<"l", "a", "k">>, <<"L", "A", "L">>, <<"b", "o", "s">>}
PositionParams == {Null, <<"S", "F">>, <<"C">>}
PlayerSearchParams == {Null, <<"j", "a">>}
TeamIdParams == {NullId, 1, 2}
PositionOptions == {All, <<"G">>, <<"F">>, <<"C">>, <<"G", "-", "F">>}
TeamOptions == {All, BOS, DEN}
PlayerSearches == {<<>>, <<"o">>}
RosterAbbrs == {BOS, <<"b", "o", "s">>, DEN, LAL}

Query(op, args, result) == [op |-> op, args |-> args, result |-> result]

\* GET /api/teams
TeamsQuery(conference, search) ==
    /\ qOut = NoQuery
    /\ qOut' = Query("getAllTeams", [conference |-> conference, search |-> search],
                     getAllTeams(conference, search))
    /\ UNCHANGED <<fs, fileChanges, reqs, predictVars, pageVars, qPlayers, serviceVars, detailVars>>

\* TeamsPage rendered with the teams of api.getTeams() and the two controls set.
TeamsPageRender(search, conference) ==
    /\ qOut = NoQuery
    /\ qOut' = Query("filteredTeams", [conference |-> conference, search |-> search],
                     filteredTeams(getAllTeams(Null, Null), search, conference))
    /\ UNCHANGED <<fs, fileChanges, reqs, predictVars, pageVars, qPlayers, serviceVars, detailVars>>

\* GET /api/players
PlayersQuery(position, search, teamId) ==
    /\ qOut = NoQuery
    /\ qOut' = Query("getAllPlayers",
                     [position |-> position, search |-> search, teamId |-> teamId],
                     getAllPlayers(position, search, teamId))
    /\ UNCHANGED <<fs, fileChanges, reqs, predictVars, pageVars, qPlayers, serviceVars, detailVars>>

\* PlayersPage: fetchPlayers on mount, then rendered with the three controls set.
PlayersPageRender(search, position, team) ==
    /\ qOut = NoQuery
    /\ qOut' = Query("filteredPlayers",
                     [position |-> position, search |-> search, team |-> team],
                     filteredPlayers(fetchPlayers(getPlayerStats(JsonFile(qPlayers))),
                                     search, position, team))
    /\ UNCHANGED <<fs, fileChanges, reqs, predictVars, pageVars, qPlayers, serviceVars, detailVars>>

\* TeamDetailPage: fetchPlayers for the team of the route.
RosterFetch(teamAbbr) ==
    /\ qOut = NoQuery
    /\ qOut' = Query("roster", [team |-> teamAbbr],
                     fetchPlayers(getPlayersByTeam(ToUpperCase(teamAbbr), JsonFile(qPlayers))))
    /\ UNCHANGED <<fs, fileChanges, reqs, predictVars, pageVars, qPlayers, serviceVars, detailVars>>

QueryInit ==
    /\ PredictIdle
    /\ fs = [schedule |-> AbsentFile, teamStats |-> AbsentFile, players |-> AbsentFile]
    /\ fileChanges = 0
    /\ RequestsInit
    /\ PageInit
    /\ qPlayers \in Snapshots
    /\ qOut = NoQuery
    /\ ServiceIdle
    /\ DetailIdle

QueryNext ==
    \/ \E conference \in ConferenceParams, search \in TeamSearchParams :
           TeamsQuery(conference, search)
    \/ \E search \in TeamSearches, conference \in ConferenceOptions :
           TeamsPageRender(search, conference)
    \/ \E position \in PositionParams, search \in PlayerSearchParams, teamId \in TeamIdParams :
           PlayersQuery(position, search, teamId)
    \/ \E search \in PlayerSearches, position \in PositionOptions, team \in TeamOptions :
           PlayersPageRender(search, position, team)
    \/ \E teamAbbr \in RosterAbbrs : RosterFetch(teamAbbr)

QuerySpec == QueryInit /\ [][QueryNext]_vars

\* ------------------------------------------------------------------------
\* The REST service over the database
\* (PredictionService, PlayerController, TeamController)
\* ------------------------------------------------------------------------

MaxRequests == 3

Kinds == {"player", "team"}
StoredIds == {1}                      \* the ids of the rows present at the start
EntityIds == {1, 2}                   \* the ids requests name; 2 has no row
GameRows == {[id |-> 1, home |-> BOS, away |-> LAL],
             [id |-> 2, home |-> LAL, away |-> BOS]}
GameIds == {1, 3}                     \* the game ids requests name; 3 has no row

Row(id, rev) == [id |-> id, rev |-> rev]
HasRow(kind, id) == \E r \in db.rows[kind] : r.id = id

IdleRequest == [op |-> "none", kind |-> "none", id |-> 0, stage |-> "idle", status |-> 0]
Request(op, kind, id) ==
    [op |-> op, kind |-> kind, id |-> id, stage |-> "called", status |-> 0]
Done(req, status) == [req EXCEPT !.stage = "done", !.status = status]

NumAbs(x) == IF x.nan THEN NaN ELSE Num(FALSE, x.mag)

\* PredictionService.generatePrediction: the Prediction built for a game.
generatePrediction(game) ==
    LET fixedAdvantage == NumOfRatio(54, 100)    \* homeAdvantage = 0.54
        homeWinProb   == fixedAdvantage
        awayWinProb   == NumSub(NumOfInt(1), homeWinProb)
        confidence    == NumMulSmall(NumMulSmall(
                             NumAbs(NumSub(homeWinProb, NumOfRatio(5, 10))), 2), 100)
    IN  [gameId             |-> game.id,
         homeTeam           |-> game.home,
         awayTeam           |-> game.away,
         homeWinProbability |-> NumMulSmall(homeWinProb, 100),
         awayWinProbability |-> NumMulSmall(awayWinProb, 100),
         predictedWinner    |-> IF NumLt(awayWinProb, homeWinProb)
                                THEN game.home ELSE game.away,
         confidence         |-> confidence]

\* The schema and the persistence provider are fixed by build files that are
\* not part of the sources: whether predictions.game_id carries the unique
\* constraint of the @OneToOne join column, and whether merge() of an entity
\* whose row is gone inserts it as new (under a generated id) or fails.
ServiceInit ==
    /\ PredictIdle
    /\ fs = [schedule |-> AbsentFile, teamStats |-> AbsentFile, players |-> AbsentFile]
    /\ fileChanges = 0
    /\ RequestsInit
    /\ PageInit
    /\ QueryIdle
    /\ DetailIdle
    /\ \E uniqueGameId \in BOOLEAN, mergeInserts \in BOOLEAN :
         db = [games        |-> GameRows,
               predictions  |-> <<>>,
               rows         |-> [kind \in Kinds |-> {Row(id, "stored") : id \in StoredIds}],
               nextId       |-> [kind \in Kinds |-> 3],
               uniqueGameId |-> uniqueGameId,
               mergeInserts |-> mergeInserts]
    /\ svc = [i \in 1..MaxRequests |-> IdleRequest]

ServiceFrame == UNCHANGED <<fs, fileChanges, reqs, predictVars, pageVars, queryVars, detailVars>>

\* A request reaches its handler; requests take the slots in order.
Call(i, op, kind, id) ==
    /\ svc[i].stage = "idle"
    /\ \A j \in 1..(i - 1) : svc[j].stage # "idle"
    /\ svc' = [svc EXCEPT ![i] = Request(op, kind, id)]
    /\ UNCHANGED db
    /\ ServiceFrame

\* updatePlayer, deletePlayer, updateTeam, deleteTeam: the lookup by id.
FindById(i) ==
    /\ svc[i].stage = "called"
    /\ svc[i].op \in {"update", "delete"}
    /\ svc' = [svc EXCEPT ![i] = IF HasRow(svc[i].kind, svc[i].id)
                                 THEN [svc[i] EXCEPT !.stage = "found"]
                                 ELSE Done(svc[i], 404)]
    /\ UNCHANGED db
    /\ ServiceFrame

\* updatePlayer, updateTeam: setId(id) and save of the request body.
Save(i) ==
    LET kind == svc[i].kind
        id   == svc[i].id
    IN  /\ svc[i].stage = "found"
        /\ svc[i].op = "update"
        /\ IF HasRow(kind, id)
           THEN /\ db' = [db EXCEPT !.rows[kind] =
                             {r \in @ : r.id # id} \cup {Row(id, "sent")}]
                /\ svc' = [svc EXCEPT ![i] = Done(@, 200)]
           ELSE IF db.mergeInserts
           THEN /\ db' = [db EXCEPT !.rows[kind] = @ \cup {Row(db.nextId[kind], "sent")},
                                    !.nextId[kind] = @ + 1]
                /\ svc' = [svc EXCEPT ![i] = Done(@, 200)]
           ELSE /\ svc' = [svc EXCEPT ![i] = Done(@, 500)]
                /\ UNCHANGED db
        /\ ServiceFrame

\* deletePlayer, deleteTeam: deleteById, which ignores an id without a row.
DeleteById(i) ==
    LET kind == svc[i].kind
        id   == svc[i].id
    IN  /\ svc[i].stage = "found"
        /\ svc[i].op = "delete"
        /\ db' = [db EXCEPT !.rows[kind] = {r \in @ : r.id # id}]
        /\ svc' = [svc EXCEPT ![i] = Done(@, 204)]
        /\ ServiceFrame

\* POST /generate/{gameId}: generatePrediction and the save of its result.
\* The games table is written by no handler modelled here, so the lookup and
\* the save are one step.
GeneratePrediction(i) ==
    LET gameId == svc[i].id
        found  == {g \in db.games : g.id = gameId}
    IN  /\ svc[i].stage = "called"
        /\ svc[i].op = "generate"
        /\ IF found = {}
           THEN /\ svc' = [svc EXCEPT ![i] = Done(@, 500)]
                /\ UNCHANGED db
           ELSE IF db.uniqueGameId /\ \E k \in 1..Len(db.predictions) :
                                          db.predictions[k].gameId = gameId
           THEN /\ svc' = [svc EXCEPT ![i] = Done(@, 500)]
                /\ UNCHANGED db
           ELSE /\ db' = [db EXCEPT !.predictions =
                             Append(@, generatePrediction(CHOOSE g \in found : TRUE))]
                /\ svc' = [svc EXCEPT ![i] = Done(@, 200)]
        /\ ServiceFrame

ServiceNext ==
    \/ \E i \in 1..MaxRequests, op \in {"update", "delete"}, kind \in Kinds, id \in EntityIds :
           Call(i, op, kind, id)
    \/ \E i \in 1..MaxRequests, id \in GameIds : Call(i, "generate", "prediction", id)
    \/ \E i \in 1..MaxRequests : FindById(i)
    \/ \E i \in 1..MaxRequests : Save(i)
    \/ \E i \in 1..MaxRequests : DeleteById(i)
    \/ \E i \in 1..MaxRequests : GeneratePrediction(i)

ServiceSpec == ServiceInit /\ [][ServiceNext]_vars

\* ------------------------------------------------------------------------
\* DetailSpec: TeamDetailPage while the route moves from team to team
\* ------------------------------------------------------------------------

MaxNavigations == 3

RouteAbbrs == {BOS, <<"b", "o", "s">>, DEN}
RouteSnapshots == {s \in Snapshots : Len(s) = MaxSnapshot}

\* useState([]), useState(true); the effect of the first render has not run.
DetailInit ==
    /\ PredictIdle
    /\ fs = [schedule |-> AbsentFile, teamStats |-> AbsentFile, players |-> AbsentFile]
    /\ fileChanges = 0
    /\ RequestsInit
    /\ PageInit
    /\ qPlayers \in RouteSnapshots
    /\ qOut = NoQuery
    /\ ServiceIdle
    /\ \E teamAbbr \in RouteAbbrs :
           detail = [teamAbbr |-> teamAbbr, players |-> <<>>, loading |-> TRUE]
    /\ fetches = <<>>

DetailFrame == UNCHANGED <<fs, fileChanges, reqs, predictVars, pageVars, queryVars, serviceVars>>

\* The effect of a render with a new teamAbbr: fetchPlayers sets loading and
\* sends api.getPlayersByTeam(teamAbbr.toUpperCase()). The effect returns no
\* cleanup, so the earlier fetches stay as they are.
RunEffect(teamAbbr) ==
    /\ Len(fetches) < MaxNavigations
    /\ detail' = [detail EXCEPT !.teamAbbr = teamAbbr, !.loading = TRUE]
    /\ fetches' = Append(fetches, [team |-> ToUpperCase(teamAbbr), stage |-> "sent"])
    /\ DetailFrame

FirstEffect == fetches = <<>> /\ RunEffect(detail.teamAbbr)

\* The route parameter changes while the page stays mounted.
Navigate(teamAbbr) ==
    /\ fetches # <<>>
    /\ teamAbbr # detail.teamAbbr
    /\ RunEffect(teamAbbr)

RosterResponse(team) == getPlayersByTeam(team, JsonFile(qPlayers))

\* The await of fetch i returns: data.sort, setPlayers(data), and in the
\* finally block setLoading(false).
Resolve(i) ==
    /\ fetches[i].stage = "sent"
    /\ detail' = [detail EXCEPT !.players = fetchPlayers(RosterResponse(fetches[i].team)),
                                !.loading = FALSE]
    /\ fetches' = [fetches EXCEPT ![i].stage = "resolved"]
    /\ DetailFrame

\* The await of fetch i throws: setPlayers([]), then setLoading(false).
Reject(i) ==
    /\ fetches[i].stage = "sent"
    /\ detail' = [detail EXCEPT !.players = <<>>, !.loading = FALSE]
    /\ fetches' = [fetches EXCEPT ![i].stage = "rejected"]
    /\ DetailFrame

DetailNext ==
    \/ FirstEffect
    \/ \E teamAbbr \in RouteAbbrs : Navigate(teamAbbr)
    \/ \E i \in 1..Len(fetches) : Resolve(i)
    \/ \E i \in 1..Len(fetches) : Reject(i)

DetailSpec == DetailInit /\ [][DetailNext]_vars

\* ------------------------------------------------------------------------
\* Properties of loading (checked under LoadSpec)
\* ------------------------------------------------------------------------

Loaded == pagePc = "loaded"
StatsLines == Tail(fs.teamStats.content)
StatsBody == StatsRead.resp.body
ShownGames == GamesRead.resp.body

\* The abbreviation cell of a data line, as written; <<>> when the line has
\* no first cell or an empty one.
AbbrCell(line) == IF JavaSplit(line) = <<>> THEN <<>> ELSE Trim(JavaSplit(line)[1])
HasIdentity(line) == AbbrCell(line) # <<>>
IdentifiedLines == SelectSeq(StatsLines, HasIdentity)

\* C11 as stated (team-stats part): after a load, the records returned by
\* the team-stats read are those of the data lines that carry a non-empty
\* abbreviation, in order, and the abbreviation-to-stats map has keys only
\* for those abbreviations: a line without abbreviation is dropped.
C11_Claim ==
    Loaded =>
        /\ Len(StatsBody) = Len(IdentifiedLines)
        /\ DOMAIN teamStats = {AbbrCell(IdentifiedLines[i]) : i \in 1..Len(IdentifiedLines)}

\* The map the claim of C12 describes: keys in upper case, last record wins.
UpperKey(rec) == ToUpperCase(PropertyKey(Get(rec, K_abbr)))
UpperKeyMap(stats) ==
    [k \in {UpperKey(stats[i]) : i \in 1..Len(stats)} |->
        stats[SetMax({i \in 1..Len(stats) : UpperKey(stats[i]) = k})]]

\* C12 as stated: abbreviations are compared in upper case, at map build
\* and at lookup, so every card is the prediction from the records whose
\* abbreviation equals the game's abbreviations ignoring letter case.
C12_Claim ==
    Loaded =>
        \A i \in 1..Len(predictions) :
            LET r == calculatePrediction(ToUpperCase(ShownGames[i].home_team_abbr),
                                         ToUpperCase(ShownGames[i].away_team_abbr),
                                         UpperKeyMap(JsListOf(StatsBody)))
            IN  /\ predictions[i].homeWinProb = r.homeWinProb
                /\ predictions[i].awayWinProb = r.awayWinProb
                /\ predictions[i].confidence = r.confidence

\* The key of the i-th record returned, and the last record of that key.
KeyOfRecord(i) == PropertyKey(Get(JsListOf(StatsBody)[i], K_abbr))
LastOfKey(k) ==
    CHOOSE i \in 1..Len(StatsBody) :
        KeyOfRecord(i) = k /\ \A j \in (i + 1)..Len(StatsBody) : KeyOfRecord(j) # k

\* C18: after a load, the map has one entry per abbreviation returned, the
\* entry of an abbreviation is the last record returned with it, and each
\* card of a game between two such abbreviations is the prediction computed
\* from those last records.
C18_LastRecordWins ==
    Loaded =>
        /\ DOMAIN teamStats = {KeyOfRecord(i) : i \in 1..Len(StatsBody)}
        /\ \A k \in DOMAIN teamStats : teamStats[k] = JsListOf(StatsBody)[LastOfKey(k)]
        /\ \A i \in 1..Len(predictions) :
               LET h == ShownGames[i].home_team_abbr
                   a == ShownGames[i].away_team_abbr
               IN  (h \in DOMAIN teamStats /\ a \in DOMAIN teamStats) =>
                       predictions[i] =
                           predictionCard(ShownGames[i], i,
                               probabilities(toPercent(clampProb(rawHomeProb(
                                   JsListOf(StatsBody)[LastOfKey(h)],
                                   JsListOf(StatsBody)[LastOfKey(a)])))))

C18_Witness ==
    /\ Loaded /\ Len(StatsBody) = 3
    /\ KeyOfRecord(1) = BOS /\ KeyOfRecord(2) = BOS /\ KeyOfRecord(3) = LAL
    /\ StatsBody[1] # StatsBody[2]
    /\ teamStats[BOS] = JsListOf(StatsBody)[2]
    /\ IsInt(predictions[1].homeWinProb, 80)

\* What a cell is by its text alone.
LooksDecimal(c) == Contains(c, ".") /\ IsDecimalBody(Unsigned(c))
LooksInteger(c) == ~Contains(c, ".") /\ Unsigned(c) # <<>> /\ AllDigits(Unsigned(c))
CellsOf(j) == JavaSplit(StatsLines[j])

\* C19: every data line gives one row, and each cell that has a header is
\* typed by its own text: with a point and a decimal literal, a decimal;
\* without a point and an integer literal, an integer; otherwise its text,
\* whatever the other cells of the row or of the column are.
C19_PerCellTyping ==
    (Answered("load.stats") /\ StatsRead.resp.branch = "parsed") =>
        /\ Len(StatsBody) = Len(StatsLines)
        /\ \A j \in 1..Len(StatsLines) :
               /\ DOMAIN StatsBody[j] = {CsvHeader[i] : i \in 1..Min2(Len(CsvHeader), Len(CellsOf(j)))}
               /\ \A i \in 1..Min2(Len(CsvHeader), Len(CellsOf(j))) :
                      LET c == Trim(CellsOf(j)[i])
                          v == StatsBody[j][CsvHeader[i]]
                      IN  IF LooksDecimal(c) THEN v.t = "Double" /\ ~v.num.nan
                          ELSE IF LooksInteger(c) THEN v.t = "Long" /\ ~v.num.nan
                          ELSE v.t = "String" /\ v.str = c

C19_Witness ==
    /\ Answered("load.stats") /\ Len(StatsBody) = 2
    /\ \A j \in 1..2 : DOMAIN StatsBody[j] = {CsvHeader[i] : i \in 1..Len(CsvHeader)}
    /\ StatsBody[1][K_win_pct].t = "String" /\ StatsBody[1][K_win_pct].str = NA_TEXT
    /\ StatsBody[1][K_ppg].t = "Long"
    /\ StatsBody[1][K_opp_ppg].t = "String"
    /\ StatsBody[2][K_win_pct].t = "Double"
    /\ StatsBody[2][K_opp_ppg].t = "Double"

\* ------------------------------------------------------------------------
\* The roster lookup (checked under BackendSpec)
\* ------------------------------------------------------------------------

RosterAnswer == reqs["client"]
RosterAnswered ==
    /\ Answered("client")
    /\ RosterAnswer.ep = "players-by-team"
    /\ fileChanges = 0
    /\ fs.players.kind = "json"

\* The players of the snapshot whose team_abbr is the text A, letter case
\* ignored; a record without a team_abbr, or with one that is no text, is
\* not among them.
PlayersOfTeam(A, snapshot) ==
    SelectSeq(snapshot, LAMBDA p : /\ K_team_abbr \in DOMAIN p
                                   /\ p[K_team_abbr].t = "String"
                                   /\ EqualsIgnoreCase(A, p[K_team_abbr].str))

\* C17 as stated: the roster lookup for abbreviation A answers successfully
\* with exactly the players of the snapshot whose team_abbr equals A ignoring
\* letter case, in snapshot order and each once; when no player matches the
\* answer is the empty list and never an error.
C17_Claim ==
    RosterAnswered =>
        /\ RosterAnswer.resp.status = 200
        /\ RosterAnswer.resp.body = PlayersOfTeam(RosterAnswer.arg, fs.players.content)

\* ------------------------------------------------------------------------
\* A failed refresh (checked under Spec)
\* ------------------------------------------------------------------------

InRefresh == pagePc' \in {"refreshing", "refreshFailed"}

\* C20: from the click on refresh until the catch callback of a failed
\* refresh has run, and for as long as the page stays in the failed state, no
\* step changes the predictions or the team-stats map, and the page in the
\* failed state is not loading.
C20_FailedRefreshKeepsState ==
    [][InRefresh =>
          /\ predictions' = predictions
          /\ teamStats' = teamStats
          /\ (pagePc' = "refreshFailed" => ~loading')]_vars

\* A refresh has failed on a page that shows cards computed from a
\* non-empty map.
C20_Witness ==
    /\ pagePc = "refreshFailed"
    /\ Len(predictions) > 0
    /\ DOMAIN teamStats # {}
    /\ ~loading

\* ------------------------------------------------------------------------
\* Properties of the queries (checked under QuerySpec)
\* ------------------------------------------------------------------------

Asked(op) == qOut.op = op
TeamIdsOf(list) == {list[i].id : i \in 1..Len(list)}
PlayerIdsOf(list) == {Get(list[i], K_player_id) : i \in 1..Len(list)}
PageTeams == getAllTeams(Null, Null)
PagePlayers == fetchPlayers(getPlayerStats(JsonFile(qPlayers)))

\* C13 as stated: a query with several filters returns the records that each
\* filter alone returns (their intersection), and a query without any filter
\* returns every record; for the teams endpoint and TeamsPage with conference
\* and search, for the players endpoint with position, search and teamId, and
\* for PlayersPage with search, position and team.
C13_Claim ==
    /\ Asked("getAllTeams") =>
           /\ TeamIdsOf(qOut.result) =
                  TeamIdsOf(getAllTeams(qOut.args.conference, Null))
                      \cap TeamIdsOf(getAllTeams(Null, qOut.args.search))
           /\ (~Supplied(qOut.args.conference) /\ ~Supplied(qOut.args.search)) =>
                  qOut.result = Teams
    /\ Asked("filteredTeams") =>
           /\ TeamIdsOf(qOut.result) =
                  TeamIdsOf(filteredTeams(PageTeams, <<>>, qOut.args.conference))
                      \cap TeamIdsOf(filteredTeams(PageTeams, qOut.args.search, All))
           /\ (qOut.args.conference = All /\ qOut.args.search = <<>>) =>
                  qOut.result = PageTeams
    /\ Asked("getAllPlayers") =>
           /\ TeamIdsOf(qOut.result) =
                  (TeamIdsOf(getAllPlayers(qOut.args.position, Null, NullId))
                      \cap TeamIdsOf(getAllPlayers(Null, qOut.args.search, NullId)))
                      \cap TeamIdsOf(getAllPlayers(Null, Null, qOut.args.teamId))
           /\ (~Supplied(qOut.args.position) /\ ~Supplied(qOut.args.search)
                   /\ qOut.args.teamId = NullId) =>
                  qOut.result = DbPlayers
    /\ Asked("filteredPlayers") =>
           /\ PlayerIdsOf(qOut.result) =
                  (PlayerIdsOf(filteredPlayers(PagePlayers, qOut.args.search, All, All))
                      \cap PlayerIdsOf(filteredPlayers(PagePlayers, <<>>, qOut.args.position, All)))
                      \cap PlayerIdsOf(filteredPlayers(PagePlayers, <<>>, All, qOut.args.team))
           /\ (qOut.args.search = <<>> /\ qOut.args.position = All /\ qOut.args.team = All) =>
                  qOut.result = PagePlayers

MatchesText(t, s) ==
    \/ Includes(ToLowerCase(t.name), ToLowerCase(s))
    \/ Includes(ToLowerCase(t.city), ToLowerCase(s))
    \/ Includes(ToLowerCase(t.abbreviation), ToLowerCase(s))
TeamsMatching(s) == {Teams[i].id : i \in {j \in 1..Len(Teams) : MatchesText(Teams[j], s)}}

\* C14 as stated: a team search with text s alone, at the endpoint or on
\* TeamsPage, returns exactly the teams with s, letter case ignored, inside
\* the name, the city or the abbreviation.
C14_Claim ==
    /\ (Asked("getAllTeams") /\ ~Supplied(qOut.args.conference) /\ Supplied(qOut.args.search)) =>
           TeamIdsOf(qOut.result) = TeamsMatching(qOut.args.search)
    /\ (Asked("filteredTeams") /\ qOut.args.conference = All) =>
           TeamIdsOf(qOut.result) = TeamsMatching(qOut.args.search)

SnapshotIdsWith(key, text) ==
    {Get(PagePlayers[i], K_player_id) :
        i \in {j \in 1..Len(PagePlayers) : EqualsIgnoreCase(Get(PagePlayers[j], key).str, text)}}

\* C15 as stated: used alone, the conference filter of TeamsPage returns
\* exactly the teams of that conference, and the position and team filters of
\* PlayersPage return exactly the players whose position, or team
\* abbreviation, equals the chosen one; the roster of TeamDetailPage holds
\* exactly the players whose team abbreviation equals the route's, letter
\* case ignored.
C15_Claim ==
    /\ (Asked("filteredTeams") /\ qOut.args.search = <<>> /\ qOut.args.conference # All) =>
           TeamIdsOf(qOut.result) =
               {Teams[i].id : i \in {j \in 1..Len(Teams) :
                                        EqualsIgnoreCase(Teams[j].conference, qOut.args.conference)}}
    /\ (Asked("filteredPlayers") /\ qOut.args.search = <<>> /\ qOut.args.team = All
            /\ qOut.args.position # All) =>
           PlayerIdsOf(qOut.result) = SnapshotIdsWith(K_position, qOut.args.position)
    /\ (Asked("filteredPlayers") /\ qOut.args.search = <<>> /\ qOut.args.position = All
            /\ qOut.args.team # All) =>
           PlayerIdsOf(qOut.result) = SnapshotIdsWith(K_team_abbr, qOut.args.team)
    /\ Asked("roster") =>
           PlayerIdsOf(qOut.result) = SnapshotIdsWith(K_team_abbr, qOut.args.team)

PpgOf(player) == Get(player, K_ppg).num
IdOf(player) == Get(player, K_player_id).num

\* C16 as stated: the list PlayersPage shows and the roster of TeamDetailPage
\* are in descending ppg order, and of two players with equal ppg the one
\* with the smaller player_id comes first.
C16_Claim ==
    (Asked("filteredPlayers") \/ Asked("roster")) =>
        \A i, j \in 1..Len(qOut.result) :
            i < j => \/ NumLt(PpgOf(qOut.result[j]), PpgOf(qOut.result[i]))
                     \/ /\ PpgOf(qOut.result[j]) = PpgOf(qOut.result[i])
                        /\ NumLt(IdOf(qOut.result[i]), IdOf(qOut.result[j]))

\* ------------------------------------------------------------------------
\* The map the predictions are read from (checked under Spec)
\* ------------------------------------------------------------------------

EmptyMap == DOMAIN teamStats = {}
WholeMap ==
    /\ Fulfilled(StatsRead)
    /\ teamStats = buildStatsMap(JsListOf(StatsRead.resp.body))
\* The lists the schedule endpoint can have answered with.
ScheduleAnswers == {Prefix(Fixtures, n) : n \in 0..MaxGames}

\* C21: in every state of the page the team-stats map is the initial empty
\* map or the whole map built from the one team-stats response of the load;
\* a pending refresh reads that same map; and the displayed list is, card for
\* card, what one schedule answer gives against that one map.
C21_OneWholeMap ==
    /\ EmptyMap \/ WholeMap
    /\ pagePc = "refreshing" => DOMAIN refreshStats = DOMAIN teamStats /\ refreshStats = teamStats
    /\ \E games \in ScheduleAnswers : predictions = predictionsOf(games, teamStats)

\* A refresh has replaced the list on a page whose map holds both teams of
\* the first game, so the first card is not the neutral one.
C21_Witness ==
    /\ pagePc = "refreshed"
    /\ WholeMap
    /\ {BOS, LAL} \subseteq DOMAIN teamStats
    /\ Len(predictions) = MaxGames
    /\ ~IsNeutralCard(predictions[1])

\* ------------------------------------------------------------------------
\* The error message (checked under Spec)
\* ------------------------------------------------------------------------

\* C26 as stated: once a load or a refresh has completed, error is set
\* exactly when that attempt, the most recent one completed, failed: null
\* after a successful load or refresh, a message after a failed load or
\* refresh.
C26_Claim ==
    /\ pagePc \in {"loaded", "refreshed"} => error = "null"
    /\ pagePc \in {"loadFailed", "refreshFailed"} => error # "null"

\* ------------------------------------------------------------------------
\* Monotonicity of the scoring function (checked under PredictSpec)
\* ------------------------------------------------------------------------

\* Points allowed, in tenths, tried for a changed team.
OppAlternatives == {1090, 1100, 1110}

\* The records that differ from t in a higher win_pct only, or in ppg and
\* opp_ppg only with a higher net rating.
RaisedWinPct(t) ==
    IF t.win.kind # "dec" THEN {}
    ELSE {[t EXCEPT !.win = DecField(w)] : w \in {v \in WinPcts : v > t.win.n}}
RaisedNetRating(t) ==
    IF t.ppg.kind # "dec" \/ t.opp.kind # "dec" THEN {}
    ELSE {[t EXCEPT !.ppg = DecField(p), !.opp = DecField(o)] :
             <<p, o>> \in {x \in PpgTenths \X OppAlternatives : x[1] - x[2] > t.ppg.n - t.opp.n}}
Raised(t) == RaisedWinPct(t) \cup RaisedNetRating(t)

\* homeWinProb of the game of the card when team a has the record t instead.
HomeWinProbWith(a, t) ==
    calculatePrediction(Card.homeAbbr, Card.awayAbbr,
                        StatsMapOf([pTeams EXCEPT ![a] = t])).homeWinProb

IntLt(x, y) == IntGt(y, x)

\* C30: for a game of two different teams that both have a record, a home
\* record with a higher win_pct or a higher net rating, all else equal, never
\* gives a lower homeWinProb, and such an away record never gives a higher
\* one.
C30_Monotone ==
    (Called /\ HasStats(Card.homeAbbr) /\ HasStats(Card.awayAbbr)
            /\ Card.homeAbbr # Card.awayAbbr) =>
        /\ \A t \in Raised(pTeams[Card.homeAbbr]) :
               ~IntLt(HomeWinProbWith(Card.homeAbbr, t), Card.homeWinProb)
        /\ \A t \in Raised(pTeams[Card.awayAbbr]) :
               ~IntLt(Card.homeWinProb, HomeWinProbWith(Card.awayAbbr, t))

\* A card strictly inside the clamp for which a better home record gives a
\* strictly higher homeWinProb and a better away record a strictly lower one.
C30_Witness ==
    /\ BothNumeric /\ Card.homeAbbr # Card.awayAbbr
    /\ InRange(Card.homeWinProb, 21, 79)
    /\ \E t \in RaisedWinPct(pTeams[Card.homeAbbr]) :
           IntLt(Card.homeWinProb, HomeWinProbWith(Card.homeAbbr, t))
    /\ \E t \in RaisedNetRating(pTeams[Card.awayAbbr]) :
           IntLt(HomeWinProbWith(Card.awayAbbr, t), Card.homeWinProb)

\* ------------------------------------------------------------------------
\* Purity of the scoring function (checked under CallsSpec)
\* ------------------------------------------------------------------------

SameGame(c, d) == c.homeAbbr = d.homeAbbr /\ c.awayAbbr = d.awayAbbr
SameResult(c, d) ==
    /\ c.homeWinProb = d.homeWinProb
    /\ c.awayWinProb = d.awayWinProb
    /\ c.confidence = d.confidence

SecondRead == reqs["client"]
LoadedTwice == pagePc = "loaded" /\ Answered("client") /\ SecondRead.ep = "team-stats"
SameMap(m1, m2) == DOMAIN m1 = DOMAIN m2 /\ \A k \in DOMAIN m1 : m1[k] = m2[k]

StoredPredictions == {db.predictions[k] : k \in 1..Len(db.predictions)}

\* C24: every Prediction that generatePrediction stored for an existing game
\* has homeWinProbability + awayWinProbability equal to 100, a confidence
\* equal to the larger of the two probabilities (so at least 50), and as
\* predictedWinner the side holding the larger probability.
C24_Claim ==
    \A p \in StoredPredictions :
        /\ NumAdd(p.homeWinProbability, p.awayWinProbability) = NumOfInt(100)
        /\ p.confidence = MathMax(p.homeWinProbability, p.awayWinProbability)
        /\ ~NumLt(p.confidence, NumOfInt(50))
        /\ p.predictedWinner =
               IF NumLt(p.awayWinProbability, p.homeWinProbability)
               THEN p.homeTeam ELSE p.awayTeam

\* C29: the predictions table holds at most one Prediction per game, and a
\* generatePrediction call for a game id without a game fails and stores
\* nothing.
C29_Claim ==
    /\ \A j, k \in 1..Len(db.predictions) :
           db.predictions[j].gameId = db.predictions[k].gameId => j = k
    /\ \A i \in 1..MaxRequests :
           (svc[i].op = "generate" /\ svc[i].stage = "done"
               /\ svc[i].id \notin {g.id : g \in GameRows})
           => /\ svc[i].status = 500
              /\ \A p \in StoredPredictions : p.gameId # svc[i].id

DeleteCompleted(kind, id) ==
    \E i \in 1..MaxRequests :
        /\ svc[i].op = "delete" /\ svc[i].kind = kind /\ svc[i].id = id
        /\ svc[i].stage = "done" /\ svc[i].status = 204

\* C28: an update or delete of an id without a row answers not-found, and an
\* update never creates a record: a row exists only under an id that had a
\* row at the start and of which no delete has completed.
C28_Claim ==
    /\ \A i \in 1..MaxRequests :
           (svc[i].stage = "done" /\ svc[i].op \in {"update", "delete"}
               /\ svc[i].id \notin StoredIds)
           => svc[i].status = 404
    /\ \A kind \in Kinds : \A r \in db.rows[kind] :
           r.id \in StoredIds /\ ~DeleteCompleted(kind, r.id)


\* ------------------------------------------------------------------------
\* Properties of the team detail page (checked under DetailSpec)
\* ------------------------------------------------------------------------

InFlight == {i \in 1..Len(fetches) : fetches[i].stage = "sent"}
LastFetch == fetches[Len(fetches)]

\* What the fetch for the selected team put on the page, or would have.
SelectedRoster ==
    IF LastFetch.stage = "resolved" THEN fetchPlayers(RosterResponse(LastFetch.team))
    ELSE <<>>

\* C25: once the fetch for the selected team has completed, the displayed
\* roster is the one that fetch delivered, whatever earlier fetches for
\* other teams do and whenever their responses arrive.
C25_Claim ==
    (fetches # <<>> /\ LastFetch.stage # "sent") => detail.players = SelectedRoster

\* C27: the loading flag of the team detail page is never false while a
\* fetch whose result will still be applied is in flight (none is ever
\* cancelled, so every fetch in flight is one).
C27_Claim == InFlight # {} => detail.loading


====
